---- MODULE Spec2Model ----
(***************************************************************************)
(* Local-search cores of dogs-color (vertex colouring and maximum clique). *)
(* Every struct of the source is a record, every method an operator that   *)
(* maps the record before the call to the record after it, and the driver  *)
(* loops are the actions.                                                  *)
(***************************************************************************)
EXTENDS Integers, Sequences, FiniteSets, TLC

VARIABLES inst, cw, pw, cq, io, drv

vars == <<inst, cw, pw, cq, io, drv>>

(***************************************************************************)
(* Bounds of the exploration.                                              *)
(***************************************************************************)
\* largest number of repair moves (commit calls) explored in one run
MaxIter == 4

(***************************************************************************)
(* Machine integers.                                                       *)
(***************************************************************************)
\* u16::MAX, the largest value of `type Weight = u16`
WeightMAX == 65535

\* stands for i64::MAX (the initial aspiration criterion); the value is only
\* ever compared and min-ed, so the largest integer that TLC represents is used
I64MAX == 2147483647

\* stands for i64::MIN (a decision never taken); only ever compared
I64MIN == -2147483647

\* u16 addition as a release build computes it
U16Add(a, b) == (a + b) % (WeightMAX + 1)

\* u16 subtraction as a release build computes it
U16Sub(a, b) == (a - b) % (WeightMAX + 1)

Min(a, b) == IF a < b THEN a ELSE b

(***************************************************************************)
(* Vec helpers: a Vec is a TLA+ sequence; Vec index i is sequence index    *)
(* i + 1.  Arrays indexed by vertex or colour are functions on 0..len-1.   *)
(***************************************************************************)
RECURSIVE SetToSortedSeq(_)
SetToSortedSeq(S) ==
    IF S = {} THEN <<>>
    ELSE LET m == CHOOSE x \in S : \A y \in S : x <= y
         IN <<m>> \o SetToSortedSeq(S \ {m})

Reverse(s) == [i \in 1..Len(s) |-> s[Len(s) + 1 - i]]

Range(s) == {s[i] : i \in 1..Len(s)}

RECURSIVE SumSeq(_)
SumSeq(s) == IF s = <<>> THEN 0 ELSE Head(s) + SumSeq(Tail(s))

RECURSIVE SumSet(_, _)
SumSet(S, f) ==
    IF S = {} THEN 0
    ELSE LET x == CHOOSE y \in S : TRUE IN f[x] + SumSet(S \ {x}, f)

\* `a < b` on Vec<VertexId>: the derived lexicographic order
RECURSIVE VecLess(_, _)
VecLess(a, b) ==
    IF b = <<>> THEN FALSE
    ELSE IF a = <<>> THEN TRUE
    ELSE IF Head(a) < Head(b) THEN TRUE
    ELSE IF Head(a) > Head(b) THEN FALSE
    ELSE VecLess(Tail(a), Tail(b))

(***************************************************************************)
(* dogs::data_structures::SparseSet (dense array and count).               *)
(***************************************************************************)
SparseInsert(ss, v) == IF v \in Range(ss) THEN ss ELSE Append(ss, v)

\* removal moves the last element of the dense array into the freed slot
SparseRemove(ss, v) ==
    IF v \notin Range(ss) THEN ss
    ELSE LET p == CHOOSE i \in 1..Len(ss) : ss[i] = v
             last == ss[Len(ss)]
         IN SubSeq([ss EXCEPT ![p] = last], 1, Len(ss) - 1)

(***************************************************************************)
(* Instances (the ColoringInstance interface).                             *)
(***************************************************************************)
Vertices(g) == 0..(g.n - 1)

MkGraph(n, E) ==
    [n |-> n,
     adj_list |-> [v \in 0..(n - 1) |->
                     SetToSortedSeq({u \in 0..(n - 1) : {u, v} \in E /\ u # v})]]

neighbors(g, u) == g.adj_list[u]

are_adjacent(g, u, v) == v \in Range(g.adj_list[u])

degree(g, u) == Len(g.adj_list[u])

\* the instances explored: triangle with a pendant vertex, path, 4-cycle,
\* an edge with an isolated vertex, a triangle, and two vertices without edge
Graphs ==
    { MkGraph(4, {{0, 1}, {1, 2}, {0, 2}, {2, 3}}),
      MkGraph(4, {{0, 1}, {1, 2}, {2, 3}}),
      MkGraph(4, {{0, 1}, {1, 2}, {2, 3}, {0, 3}}),
      MkGraph(3, {{1, 2}}),
      MkGraph(3, {{0, 1}, {1, 2}, {0, 2}}),
      MkGraph(2, {}) }

\* a partition given as colour map, as the Vec<Vec<VertexId>> of its classes
ClassesOf(g, k, col, desc) ==
    [c \in 1..k |->
        LET s == SetToSortedSeq({v \in Vertices(g) : col[v] = c - 1})
        IN IF desc THEN Reverse(s) ELSE s]

ProperMap(g, col) ==
    \A u \in Vertices(g) : \A v \in Range(g.adj_list[u]) : col[u] # col[v]

\* feasible seed colourings: every class non-empty, no edge inside a class;
\* the vertices of a class are listed in increasing or in decreasing order
Seeds(g) ==
    UNION { { ClassesOf(g, k, col, desc) :
                col \in { f \in [Vertices(g) -> 0..(k - 1)] :
                            /\ ProperMap(g, f)
                            /\ \A c \in 0..(k - 1) : \E v \in Vertices(g) : f[v] = c },
                desc \in BOOLEAN }
            : k \in 1..g.n }

(***************************************************************************)
(* Feasibility of a solution (Vec of classes) and its number of colours.   *)
(***************************************************************************)
IsPartition(g, sol) ==
    \A v \in Vertices(g) :
        Cardinality({p \in UNION {{<<c, i>> : i \in 1..Len(sol[c])} : c \in 1..Len(sol)} :
                        sol[p[1]][p[2]] = v}) = 1

NoEdgeInside(g, sol) ==
    \A c \in 1..Len(sol) : \A i, j \in 1..Len(sol[c]) :
        ~are_adjacent(g, sol[c][i], sol[c][j])

Feasible(g, sol) == IsPartition(g, sol) /\ NoEdgeInside(g, sol)

NbNonEmpty(sol) == Cardinality({c \in 1..Len(sol) : sol[c] # <<>>})

(***************************************************************************)
(* Colouring CWLS: TabuColTenure.                                          *)
(***************************************************************************)
\* L of TabuColTenure::new(10, 0.6, n, nb_colors): rng.i64(0..l) draws 0..L-1
TabuL == 10

\* (lambda * nb_conflicts as f64) as i64 with lambda = 0.6
TabuLambdaPart(nb_conflicts) == (6 * nb_conflicts) \div 10

TabuColTenure_new(n, c) ==
    [nb_iter |-> 0,
     decisions |-> [v \in 0..(n - 1) |-> [k \in 0..(c - 1) |-> I64MIN]],
     threshold |-> 0]

\* insert(n, d); r is the value drawn from the random number generator
TabuCol_insert(t, n, d, r) ==
    [t EXCEPT !.decisions[d.vertex][d.previous_color] = t.nb_iter,
              !.threshold = r + TabuLambdaPart(n.nb_conflicts)]

TabuCol_contains(t, d) ==
    t.decisions[d.vertex][d.next_color] >= t.nb_iter - t.threshold

TabuCol_increment_iter(t) == [t EXCEPT !.nb_iter = @ + 1]

(***************************************************************************)
(* Colouring CWLS: struct ConflictWeightingLocalSearch.                    *)
(***************************************************************************)
get_weight(s, u, v) == IF u < v THEN s.weights[v][u] ELSE s.weights[u][v]

increase_weight(s, u, v) ==
    IF u < v THEN [s EXCEPT !.weights[v][u] = U16Add(@, 1)]
    ELSE [s EXCEPT !.weights[u][v] = U16Add(@, 1)]

is_goal(s) == s.total_weight = 0

\* weights_neigh_colors after the loop `for u, for v in neighbors(u)`
RECURSIVE init_neigh_colors(_, _, _)
init_neigh_colors(row, colors, nbs) ==
    IF nbs = <<>> THEN row
    ELSE init_neigh_colors([row EXCEPT ![colors[Head(nbs)]] = U16Add(@, 1)],
                           colors, Tail(nbs))

initialize(g, sol) ==
    LET n == g.n
        nb_colors == Len(sol)
        \* colors[v] = i for the last class i that lists v (vec![0 ; n] otherwise)
        colors == [v \in 0..(n - 1) |->
                     IF \E i \in 1..nb_colors : v \in Range(sol[i])
                     THEN (CHOOSE i \in 1..nb_colors :
                              /\ v \in Range(sol[i])
                              /\ \A j \in (i + 1)..nb_colors : v \notin Range(sol[j])) - 1
                     ELSE 0]
    IN [weights |-> [i \in 0..(n - 1) |-> [j \in 0..(i - 1) |-> 1]],
        current_sol |-> sol,
        colors |-> colors,
        colors_bitsets |-> [c \in 0..(nb_colors - 1) |-> Range(sol[c + 1])],
        colors_vertex_number |-> [c \in 0..(nb_colors - 1) |-> Len(sol[c + 1])],
        weights_neigh_colors |->
            [u \in 0..(n - 1) |->
                init_neigh_colors([c \in 0..(nb_colors - 1) |-> 0], colors, neighbors(g, u))],
        conflicting_vertices |-> <<>>,
        vertex_nb_conflicts |-> [v \in 0..(n - 1) |-> 0],
        nb_conflicting_edges |-> 0,
        total_weight |-> 0,
        tabu |-> TabuColTenure_new(n, nb_colors),
        aspiration_criterion |-> I64MAX,
        nb_iter |-> 0,
        nb_colors |-> nb_colors,
        best_so_far_colors |-> nb_colors]

update_current_solution(g, s) ==
    LET new_solution == [c \in 1..s.nb_colors |->
                            SetToSortedSeq({v \in Vertices(g) : s.colors[v] = c - 1})]
    IN [s EXCEPT !.current_sol = new_solution,
                 !.best_so_far_colors = NbNonEmpty(new_solution)]

\* cvc_remove_conflict that forgets the count of the moved vertex
cvc_remove_conflict_no_dec(s, v, neigh) ==
    LET a == [s EXCEPT !.vertex_nb_conflicts[neigh] = @ - 1]
    IN [a EXCEPT !.nb_conflicting_edges = @ - 1]

\* `if self.colors[neigh] == previous_color { // remove conflict`
cvc_remove_conflict(s, v, neigh) ==
    LET a == [s EXCEPT !.vertex_nb_conflicts[neigh] = @ - 1]
        b == [a EXCEPT !.vertex_nb_conflicts[v] = @ - 1]
    IN [b EXCEPT !.nb_conflicting_edges = @ - 1]

\* cvc_add_conflict that forgets `self.weights_neigh_colors[v][next_color] += 1`
cvc_add_conflict_no_nbw(s, v, next_color, neigh) ==
    LET a == [s EXCEPT !.vertex_nb_conflicts[neigh] = @ + 1]
        b == [a EXCEPT !.vertex_nb_conflicts[v] = @ + 1]
        c == [b EXCEPT !.nb_conflicting_edges = @ + 1]
        d == increase_weight(c, neigh, v)
        e == [d EXCEPT !.weights_neigh_colors[neigh][next_color] = U16Add(@, 1)]
        h == [e EXCEPT !.conflicting_vertices = SparseInsert(SparseInsert(@, neigh), v)]
    IN [h EXCEPT !.total_weight = U16Add(@, 1)]

\* `if self.colors[neigh] == next_color { // add conflict`, with the weight growth
cvc_add_conflict(s, v, next_color, neigh) ==
    LET a == [s EXCEPT !.vertex_nb_conflicts[neigh] = @ + 1]
        b == [a EXCEPT !.vertex_nb_conflicts[v] = @ + 1]
        c == [b EXCEPT !.nb_conflicting_edges = @ + 1]
        d == increase_weight(c, neigh, v)
        e == [d EXCEPT !.weights_neigh_colors[neigh][next_color] = U16Add(@, 1)]
        f == [e EXCEPT !.weights_neigh_colors[v][next_color] = U16Add(@, 1)]
        h == [f EXCEPT !.conflicting_vertices = SparseInsert(SparseInsert(@, neigh), v)]
    IN [h EXCEPT !.total_weight = U16Add(@, 1)]

\* body of `for neigh in self.inst.neighbors(v)` of change_vertex_color
cvc_neigh(s, v, previous_color, next_color, neigh) ==
    LET weight == get_weight(s, neigh, v)
        s1 == [s EXCEPT !.weights_neigh_colors[neigh][previous_color] = U16Sub(@, weight)]
        s2 == [s1 EXCEPT !.weights_neigh_colors[neigh][next_color] = U16Add(@, weight)]
        s3 == IF s2.colors[neigh] = previous_color
              THEN cvc_remove_conflict(s2, v, neigh)
              ELSE s2
    IN IF s3.colors[neigh] = next_color
       THEN cvc_add_conflict(s3, v, next_color, neigh)
       ELSE s3

RECURSIVE cvc_loop(_, _, _, _, _)
cvc_loop(s, v, previous_color, next_color, nbs) ==
    IF nbs = <<>> THEN s
    ELSE cvc_loop(cvc_neigh(s, v, previous_color, next_color, Head(nbs)),
                  v, previous_color, next_color, Tail(nbs))

\* change_vertex_color that records the colouring whether or not it is a goal
change_vertex_color_always(g, s, v, next_color) ==
    LET previous_color == s.colors[v]
        s1 == [s EXCEPT !.colors[v] = next_color]
        s2 == [s1 EXCEPT !.colors_bitsets[previous_color] = @ \ {v}]
        s3 == [s2 EXCEPT !.colors_bitsets[next_color] = @ \cup {v}]
        s4 == [s3 EXCEPT !.colors_vertex_number[previous_color] = @ - 1]
        s5 == [s4 EXCEPT !.colors_vertex_number[next_color] = @ + 1]
        s6 == [s5 EXCEPT !.total_weight =
                  U16Sub(U16Add(@, s5.weights_neigh_colors[v][next_color]),
                         s5.weights_neigh_colors[v][previous_color])]
        s7 == cvc_loop(s6, v, previous_color, next_color, neighbors(g, v))
        s8 == [s7 EXCEPT !.aspiration_criterion = Min(@, s7.nb_conflicting_edges)]
    IN update_current_solution(g, s8)

\* change_vertex_color that forgets `colors_vertex_number[previous_color] -= 1`
change_vertex_color_no_dec(g, s, v, next_color) ==
    LET previous_color == s.colors[v]
        s1 == [s EXCEPT !.colors[v] = next_color]
        s2 == [s1 EXCEPT !.colors_bitsets[previous_color] = @ \ {v}]
        s3 == [s2 EXCEPT !.colors_bitsets[next_color] = @ \cup {v}]
        s5 == [s3 EXCEPT !.colors_vertex_number[next_color] = @ + 1]
        s6 == [s5 EXCEPT !.total_weight =
                  U16Sub(U16Add(@, s5.weights_neigh_colors[v][next_color]),
                         s5.weights_neigh_colors[v][previous_color])]
        s7 == cvc_loop(s6, v, previous_color, next_color, neighbors(g, v))
        s8 == [s7 EXCEPT !.aspiration_criterion = Min(@, s7.nb_conflicting_edges)]
    IN IF is_goal(s8) THEN update_current_solution(g, s8) ELSE s8

\* change_vertex_color(v, next_color)
change_vertex_color(g, s, v, next_color) ==
    LET previous_color == s.colors[v]
        s1 == [s EXCEPT !.colors[v] = next_color]
        s2 == [s1 EXCEPT !.colors_bitsets[previous_color] = @ \ {v}]
        s3 == [s2 EXCEPT !.colors_bitsets[next_color] = @ \cup {v}]
        s4 == [s3 EXCEPT !.colors_vertex_number[previous_color] = @ - 1]
        s5 == [s4 EXCEPT !.colors_vertex_number[next_color] = @ + 1]
        s6 == [s5 EXCEPT !.total_weight =
                  U16Sub(U16Add(@, s5.weights_neigh_colors[v][next_color]),
                         s5.weights_neigh_colors[v][previous_color])]
        s7 == cvc_loop(s6, v, previous_color, next_color, neighbors(g, v))
        s8 == [s7 EXCEPT !.aspiration_criterion = Min(@, s7.nb_conflicting_edges)]
    IN IF is_goal(s8) THEN update_current_solution(g, s8) ELSE s8

get_solution(s) == SelectSeq(s.current_sol, LAMBDA e : e # <<>>)

(***************************************************************************)
(* Colouring CWLS: merge phase, move selection, commit.                    *)
(***************************************************************************)
\* merge cost of the pair (i1, i2): the u32 sum clamped at u16::MAX
merge_cost(s, i1, i2) ==
    LET color1 == s.current_sol[i1 + 1]
        current_weight_large ==
            SumSeq([j \in 1..Len(color1) |-> s.weights_neigh_colors[color1[j]][i2]])
    IN IF current_weight_large > WeightMAX THEN WeightMAX ELSE current_weight_large

\* the double loop over (i1, color1), (i2, color2); idx enumerates the pairs in
\* the order of the loops; acc = [best_weight, current_best_color_merge]
RECURSIVE merge_scan(_, _, _)
merge_scan(s, idx, acc) ==
    LET k == Len(s.current_sol)
        i1 == idx \div k
        i2 == idx % k
    IN IF idx >= k * k THEN acc
       ELSE IF i2 < i1 /\ s.current_sol[i1 + 1] # <<>> /\ s.current_sol[i2 + 1] # <<>>
                 /\ merge_cost(s, i1, i2) < acc.best_weight
            THEN merge_scan(s, idx + 1,
                            [best_weight |-> merge_cost(s, i1, i2),
                             current_best_color_merge |-> <<i2, i1>>])
            ELSE merge_scan(s, idx + 1, acc)

\* <<>> stands for None
best_color_merge(s) ==
    merge_scan(s, 0, [best_weight |-> WeightMAX,
                      current_best_color_merge |-> <<>>]).current_best_color_merge

\* merge cost in coloring_conflict_weighting.rs: the sum is computed in u16
merge_cost_u16(s, i1, i2) ==
    LET color1 == s.current_sol[i1 + 1]
    IN SumSeq([j \in 1..Len(color1) |-> s.weights_neigh_colors[color1[j]][i2]])
          % (WeightMAX + 1)

\* the double loop of coloring_conflict_weighting.rs, which also takes the
\* first pair whatever its cost (`|| current_best_color_merge.is_none()`)
RECURSIVE merge_scan_u16(_, _, _)
merge_scan_u16(s, idx, acc) ==
    LET k == Len(s.current_sol)
        i1 == idx \div k
        i2 == idx % k
    IN IF idx >= k * k THEN acc
       ELSE IF i2 < i1 /\ s.current_sol[i1 + 1] # <<>> /\ s.current_sol[i2 + 1] # <<>>
                 /\ (merge_cost_u16(s, i1, i2) < acc.best_weight
                        \/ acc.current_best_color_merge = <<>>)
            THEN merge_scan_u16(s, idx + 1,
                                [best_weight |-> merge_cost_u16(s, i1, i2),
                                 current_best_color_merge |-> <<i2, i1>>])
            ELSE merge_scan_u16(s, idx + 1, acc)

best_color_merge_u16(s) ==
    merge_scan_u16(s, 0, [best_weight |-> WeightMAX,
                          current_best_color_merge |-> <<>>]).current_best_color_merge

\* the class emptied by the merge of the pair m = (c1, c2)
merge_c_min(s, m) ==
    IF VecLess(s.current_sol[m[1] + 1], s.current_sol[m[2] + 1]) THEN m[1] ELSE m[2]

\* the class that receives the vertices
merge_c_max(s, m) ==
    IF VecLess(s.current_sol[m[1] + 1], s.current_sol[m[2] + 1]) THEN m[2] ELSE m[1]

\* SearchSpace::initial()
initial(s) ==
    [vertex |-> 0, previous_color |-> s.colors[0], next_color |-> s.colors[0],
     total_penalties |-> 0, nb_conflicts |-> 0]

\* SearchSpace::goal(n)
goal(n) == n.nb_conflicts = 0

\* the node returned when no move is selected
PlaceholderNode ==
    [vertex |-> 0, previous_color |-> 0, next_color |-> 0,
     total_penalties |-> WeightMAX, nb_conflicts |-> 0]

\* fbm_candidate without the test that the colour is in use
fbm_candidate_any(s, u, c) == c # s.colors[u]

\* is the move of u to colour c a candidate (`if c != colors[u] && ... > 0`)
fbm_candidate(s, u, c) == c # s.colors[u] /\ s.colors_vertex_number[c] > 0

\* `for c in 0..self.nb_colors` of find_best_move, from colour c on
RECURSIVE fbm_colors(_, _, _, _)
fbm_colors(s, u, c, best_node) ==
    IF c >= s.nb_colors THEN best_node
    ELSE LET current_penalties ==
                 U16Sub(U16Add(s.total_weight, s.weights_neigh_colors[u][c]),
                        s.weights_neigh_colors[u][s.colors[u]])
             current_node ==
                 [vertex |-> u, previous_color |-> s.colors[u], next_color |-> c,
                  total_penalties |-> current_penalties,
                  nb_conflicts |-> s.nb_conflicting_edges]
             is_tabu == TabuCol_contains(s.tabu, current_node)
         IN IF /\ fbm_candidate(s, u, c)
               /\ current_penalties < best_node.total_penalties
               /\ (~is_tabu \/ s.nb_conflicting_edges < s.aspiration_criterion)
            THEN fbm_colors(s, u, c + 1, current_node)
            ELSE fbm_colors(s, u, c + 1, best_node)

\* the scan with `i += 1` after a removal too: the vertex that the removal
\* puts at position i is not looked at
RECURSIVE fbm_scan_skips(_, _, _)
fbm_scan_skips(s, i, best_node) ==
    IF i >= Len(s.conflicting_vertices) THEN [state |-> s, node |-> best_node]
    ELSE LET u == s.conflicting_vertices[i + 1]
         IN IF s.vertex_nb_conflicts[u] > 0
            THEN fbm_scan_skips(s, i + 1, fbm_colors(s, u, 0, best_node))
            ELSE fbm_scan_skips([s EXCEPT !.conflicting_vertices = SparseRemove(@, u)],
                                i + 1, best_node)

\* `while i < self.conflicting_vertices.len()`; returns the state (vertices
\* without conflict are removed from the sparse set) and the node
RECURSIVE fbm_scan(_, _, _)
fbm_scan(s, i, best_node) ==
    IF i >= Len(s.conflicting_vertices) THEN [state |-> s, node |-> best_node]
    ELSE LET u == s.conflicting_vertices[i + 1]
         IN IF s.vertex_nb_conflicts[u] > 0
            THEN fbm_scan(s, i + 1, fbm_colors(s, u, 0, best_node))
            ELSE fbm_scan([s EXCEPT !.conflicting_vertices = SparseRemove(@, u)],
                          i, best_node)

find_best_move(s) == fbm_scan(s, 0, PlaceholderNode)

\* commit(node); r is the random part of the new tabu threshold
commit(g, s, node, r) ==
    LET s1 == [s EXCEPT !.tabu = TabuCol_insert(@, node, node, r)]
        s2 == [s1 EXCEPT !.tabu = TabuCol_increment_iter(@)]
        s3 == [s2 EXCEPT !.nb_iter = @ + 1]
    IN change_vertex_color(g, s3, node.vertex, node.next_color)

(***************************************************************************)
(* Colouring CWLS: the driver conflict_weighting_local_search.             *)
(*   drv.pc      position in the driver: "outer" (head of the outer        *)
(*               loop), "select" (head of the loop of merge_colors),       *)
(*               "move" (inside `for v in current_sol[c_min].clone()`),    *)
(*               "repair" (head of the inner loop), "done", "panic"        *)
(*   drv.stop    has the stopping criterion fired (time only advances)     *)
(*   drv.fallback number of commits of the placeholder node (history)      *)
(***************************************************************************)
\* the value of the variable of a search state that the run does not use
Idle == [pc |-> "idle"]

DriverInit(sol, greedy, node) ==
    [pc |-> "outer", stop |-> FALSE, greedy |-> greedy, best_sol |-> sol, seed |-> sol,
     c_min |-> 0, c_max |-> 0, todo |-> <<>>, phases |-> 0, merges |-> 0,
     fallback |-> 0,
     node |-> node, has_best |-> FALSE, returned |-> <<>>]

InitCWLS ==
    \E g \in Graphs : \E sol \in Seeds(g) :
        /\ inst = g
        /\ cw = initialize(g, sol)
        /\ pw = Idle
        /\ cq = Idle
        /\ io = Idle
        /\ drv = DriverInit(sol, FALSE, initial(initialize(g, sol)))

\* the stopping criterion fires
Stop ==
    /\ drv.pc \notin {"done", "panic"}
    /\ ~drv.stop
    /\ drv' = [drv EXCEPT !.stop = TRUE]
    /\ UNCHANGED <<inst, cw, pw, cq, io>>

\* `while !stop.is_finished() { state.merge_colors(); ...`
EnterPhase ==
    /\ drv.pc = "outer"
    /\ ~drv.stop
    /\ drv' = [drv EXCEPT !.pc = "select"]
    /\ UNCHANGED <<inst, cw, pw, cq, io>>

\* merge_colors: selection of the pair; unwrap() panics on None
MergeSelect ==
    /\ drv.pc = "select"
    /\ LET m == IF drv.greedy THEN best_color_merge_u16(cw) ELSE best_color_merge(cw)
       IN IF m = <<>>
          THEN drv' = [drv EXCEPT !.pc = "panic"]
          ELSE drv' = [drv EXCEPT !.pc = "move",
                                  !.c_min = merge_c_min(cw, m),
                                  !.c_max = merge_c_max(cw, m),
                                  !.todo = cw.current_sol[merge_c_min(cw, m) + 1],
                                  !.merges = @ + 1]
    /\ UNCHANGED <<inst, cw, pw, cq, io>>

\* merge_colors: one iteration of `for v in ... { change_vertex_color(v, c_max) }`
MergeMove ==
    /\ drv.pc = "move"
    /\ drv.todo # <<>>
    /\ cw' = change_vertex_color(inst, cw, Head(drv.todo), drv.c_max)
    /\ drv' = [drv EXCEPT !.todo = Tail(@)]
    /\ UNCHANGED <<inst, pw, cq, io>>

\* merge_colors: `if self.is_goal() { update_current_solution() } else { break }`
MergeCheck ==
    /\ drv.pc = "move"
    /\ drv.todo = <<>>
    /\ IF is_goal(cw)
       THEN /\ cw' = update_current_solution(inst, cw)
            /\ drv' = [drv EXCEPT !.pc = "select"]
       ELSE /\ cw' = cw
            /\ drv' = [drv EXCEPT !.pc = "repair"]
    /\ UNCHANGED <<inst, pw, cq, io>>

\* one iteration of `while !state.is_goal() && !stop.is_finished()`
RepairStep ==
    /\ drv.pc = "repair"
    /\ ~is_goal(cw)
    /\ ~drv.stop
    /\ cw.nb_iter < MaxIter
    /\ \E r \in 0..(TabuL - 1) :
          LET fb == find_best_move(cw)
          IN /\ cw' = commit(inst, fb.state, fb.node, r)
             /\ drv' = [drv EXCEPT !.fallback =
                           IF fb.node = PlaceholderNode THEN @ + 1 ELSE @]
    /\ UNCHANGED <<inst, pw, cq, io>>

\* exit of the inner loop and `if state.is_goal() { best_sol = get_solution() }`
RepairExit ==
    /\ drv.pc = "repair"
    /\ is_goal(cw) \/ drv.stop
    /\ drv' = [drv EXCEPT !.pc = "outer",
                          !.phases = @ + 1,
                          !.best_sol = IF is_goal(cw) THEN get_solution(cw) ELSE @]
    /\ UNCHANGED <<inst, cw, pw, cq, io>>

\* exit of the outer loop: `best_sol` is returned
Return ==
    /\ drv.pc = "outer"
    /\ drv.stop
    /\ drv' = [drv EXCEPT !.pc = "done", !.returned = drv.best_sol]
    /\ UNCHANGED <<inst, cw, pw, cq, io>>

NextCWLS ==
    \/ Stop
    \/ EnterPhase
    \/ MergeSelect
    \/ MergeMove
    \/ MergeCheck
    \/ RepairStep
    \/ RepairExit
    \/ Return

SpecCWLS == InitCWLS /\ [][NextCWLS]_vars

(***************************************************************************)
(* Properties of colouring CWLS.                                           *)
(***************************************************************************)
\* the pairs <<u, v>>, v < u, of adjacent vertices with the same colour
ConflictingEdges(g, s) ==
    {p \in Vertices(g) \X Vertices(g) :
        p[2] < p[1] /\ are_adjacent(g, p[1], p[2]) /\ s.colors[p[1]] = s.colors[p[2]]}

\* the neighbours of v that have colour c
NeighborsInClass(g, s, v, c) == {u \in Range(neighbors(g, v)) : s.colors[u] = c}

\* number of colours with at least one vertex in the search state
NbColorsInUse(s) ==
    Cardinality({c \in 0..(s.nb_colors - 1) : s.colors_vertex_number[c] > 0})

\* C1: the best colouring held by the driver, the colouring recorded in the
\* search state and the colouring returned are feasible at every point, also
\* when the stopping criterion fires while conflicts remain
C1_BestIsFeasible ==
    /\ Feasible(inst, drv.best_sol)
    /\ Feasible(inst, cw.current_sol)
    /\ drv.pc = "done" => Feasible(inst, drv.returned)

\* the search was stopped in the middle of a repair phase, after an earlier
\* phase had improved on the seed, and the best colouring was returned
C1_Witness ==
    /\ drv.pc = "done"
    /\ ~is_goal(cw)
    /\ cw.nb_iter >= 1
    /\ drv.returned # drv.seed

\* C3 as stated: after the first merge+repair phase that reaches W = 0 the
\* colouring has exactly one colour fewer than the seed, or as many
C3_OneFewerOrEqual ==
    (drv.phases = 1 /\ drv.pc = "outer" /\ is_goal(cw))
        => Len(drv.best_sol) \in {Len(drv.seed) - 1, Len(drv.seed)}

\* C3 amended: after the first merge+repair phase that reaches W = 0 the
\* colouring has no more colours than the seed, and as many only when the
\* placeholder move was committed (it puts vertex 0 back into colour 0)
C3_NeverMore ==
    (drv.phases = 1 /\ drv.pc = "outer" /\ is_goal(cw))
        => /\ Len(drv.best_sol) <= Len(drv.seed)
           /\ Len(drv.best_sol) = Len(drv.seed) => drv.fallback > 0

\* a first phase that ends with at least two colours fewer than the seed
C3_Witness ==
    /\ drv.phases = 1 /\ drv.pc = "outer" /\ is_goal(cw)
    /\ cw.nb_iter >= 1
    /\ Len(drv.best_sol) <= Len(drv.seed) - 2

C5_NeighborWeights ==
    \A v \in Vertices(inst) : \A c \in 0..(cw.nb_colors - 1) :
        cw.weights_neigh_colors[v][c] =
            SumSet(NeighborsInClass(inst, cw, v, c),
                   [u \in NeighborsInClass(inst, cw, v, c) |-> get_weight(cw, u, v)])

\* some vertex has a neighbour of its colour over an edge whose weight grew
C5_Witness ==
    /\ cw.nb_iter >= 1
    /\ \E v \in Vertices(inst) : \E u \in NeighborsInClass(inst, cw, v, cw.colors[v]) :
          get_weight(cw, u, v) >= 3

\* C6: vertex_nb_conflicts[v] is the number of neighbours of v with the colour
\* of v, and the counts sum up to twice the number of conflicting edges
C6_ConflictCounts ==
    /\ \A v \in Vertices(inst) :
          cw.vertex_nb_conflicts[v] =
              Cardinality(NeighborsInClass(inst, cw, v, cw.colors[v]))
    /\ SumSet(Vertices(inst), cw.vertex_nb_conflicts)
          = 2 * Cardinality(ConflictingEdges(inst, cw))
    /\ cw.nb_conflicting_edges = Cardinality(ConflictingEdges(inst, cw))

\* two conflicting edges at once, after a repair move
C6_Witness ==
    /\ cw.nb_iter >= 1
    /\ Cardinality(ConflictingEdges(inst, cw)) >= 2

\* C7: colors_vertex_number[c] is the cardinality of colors_bitsets[c], which
\* holds the vertices of colour c, and the class sizes sum up to n
C7_ClassSizes ==
    /\ \A c \in 0..(cw.nb_colors - 1) :
          /\ cw.colors_vertex_number[c] = Cardinality(cw.colors_bitsets[c])
          /\ cw.colors_bitsets[c] = {v \in Vertices(inst) : cw.colors[v] = c}
    /\ SumSet(0..(cw.nb_colors - 1), cw.colors_vertex_number) = inst.n

\* a class has been emptied by a merge and repair moves have been applied
C7_Witness ==
    /\ cw.nb_iter >= 2
    /\ \E c \in 0..(cw.nb_colors - 1) : cw.colors_vertex_number[c] = 0
    /\ \E c \in 0..(cw.nb_colors - 1) : cw.colors_vertex_number[c] >= 3

(***************************************************************************)
(* Colouring CWLS as run by coloring_conflict_weighting: the search space  *)
(* is driven by dogs' Greedy, which calls neighbors(n) on the current node *)
(* and continues with a node of minimum guide among those returned.        *)
(***************************************************************************)
\* `for c in 0..self.nb_colors` of neighbors, from colour c on
RECURSIVE nb_colors_loop(_, _, _, _)
nb_colors_loop(s, u, c, best_nodes) ==
    IF c >= s.nb_colors THEN best_nodes
    ELSE LET current_penalties ==
                 U16Sub(U16Add(s.total_weight, s.weights_neigh_colors[u][c]),
                        s.weights_neigh_colors[u][s.colors[u]])
             current_node ==
                 [vertex |-> u, previous_color |-> s.colors[u], next_color |-> c,
                  total_penalties |-> current_penalties,
                  nb_conflicts |-> s.nb_conflicting_edges]
             is_tabu == TabuCol_contains(s.tabu, current_node)
         IN IF /\ fbm_candidate(s, u, c)
               /\ current_penalties <= best_nodes[1].total_penalties
               /\ (~is_tabu \/ s.nb_conflicting_edges < s.aspiration_criterion)
            THEN nb_colors_loop(s, u, c + 1,
                     IF current_penalties < best_nodes[1].total_penalties
                     THEN <<current_node>>
                     ELSE Append(best_nodes, current_node))
            ELSE nb_colors_loop(s, u, c + 1, best_nodes)

\* `while i < self.conflicting_vertices.len()` of neighbors
RECURSIVE nb_scan(_, _, _)
nb_scan(s, i, best_nodes) ==
    IF i >= Len(s.conflicting_vertices) THEN [state |-> s, nodes |-> best_nodes]
    ELSE LET u == s.conflicting_vertices[i + 1]
         IN IF s.vertex_nb_conflicts[u] > 0
            THEN nb_scan(s, i + 1, nb_colors_loop(s, u, 0, best_nodes))
            ELSE nb_scan([s EXCEPT !.conflicting_vertices = SparseRemove(@, u)],
                         i, best_nodes)

\* GuidedSpace::guide(n)
guide(n) == n.total_penalties

InitGreedy ==
    \E g \in Graphs : \E sol \in Seeds(g) :
        /\ inst = g
        /\ cw = initialize(g, sol)
        /\ pw = Idle
        /\ cq = Idle
        /\ io = Idle
        /\ drv = DriverInit(sol, TRUE, initial(initialize(g, sol)))

\* neighbors(node), first part: commit of the node unless it is a dummy
\* decision, then `if self.goal(node) { assert!(self.is_goal()); merge_colors() }`
NeighborsBegin ==
    /\ drv.pc = "outer"
    /\ ~drv.stop
    /\ drv.node.previous_color # drv.node.next_color => cw.nb_iter < MaxIter
    /\ IF drv.node.previous_color # drv.node.next_color
       THEN \E r \in 0..(TabuL - 1) : cw' = commit(inst, cw, drv.node, r)
       ELSE cw' = cw
    /\ drv' = [drv EXCEPT !.pc = IF goal(drv.node)
                                 THEN (IF is_goal(cw') THEN "select" ELSE "panic")
                                 ELSE "repair"]
    /\ UNCHANGED <<inst, pw, cq, io>>

\* neighbors(node), last part: the scan of the conflicting vertices; Greedy
\* continues with a returned node of minimum guide and records a goal node
NeighborsScan ==
    /\ drv.pc = "repair"
    /\ LET res == nb_scan(cw, 0, <<PlaceholderNode>>)
       IN /\ cw' = res.state
          /\ \E i \in 1..Len(res.nodes) :
                /\ \A j \in 1..Len(res.nodes) : guide(res.nodes[i]) <= guide(res.nodes[j])
                /\ drv' = [drv EXCEPT !.pc = "outer",
                                      !.node = res.nodes[i],
                                      !.phases = IF goal(res.nodes[i]) THEN @ + 1 ELSE @,
                                      !.has_best = @ \/ goal(res.nodes[i])]
    /\ UNCHANGED <<inst, pw, cq, io>>

\* ToSolution::solution
solution(s) == SelectSeq(s.current_sol, LAMBDA e : e # <<>>)

\* coloring_conflict_weighting after ts.run(stop): the seed if the search
\* recorded no goal node, otherwise solution()
GreedyReturn ==
    /\ drv.pc = "outer"
    /\ drv.stop
    /\ drv' = [drv EXCEPT !.pc = "done",
                          !.returned = IF drv.has_best THEN solution(cw) ELSE drv.seed]
    /\ UNCHANGED <<inst, cw, pw, cq, io>>

NextGreedy ==
    \/ Stop
    \/ NeighborsBegin
    \/ MergeSelect
    \/ MergeMove
    \/ MergeCheck
    \/ NeighborsScan
    \/ GreedyReturn

SpecGreedy == InitGreedy /\ [][NextGreedy]_vars

(***************************************************************************)
(* Properties of colouring CWLS as run by coloring_conflict_weighting.     *)
(***************************************************************************)
\* C2: the colouring returned has at most as many colours as the seed, and
\* from one step to the next neither the number of colours of the recorded
\* best colouring nor the number of colours in use increases
C2_ColorsNeverIncrease ==
    /\ [](/\ cw.best_so_far_colors <= Len(drv.seed)
          /\ NbNonEmpty(cw.current_sol) = cw.best_so_far_colors
          /\ drv.pc = "done" => Len(drv.returned) <= Len(drv.seed))
    /\ [][/\ cw'.best_so_far_colors <= cw.best_so_far_colors
          /\ NbColorsInUse(cw') <= NbColorsInUse(cw)]_vars

\* a run that returned, after repair moves, fewer colours than the seed had
C2_Witness ==
    /\ drv.pc = "done"
    /\ cw.nb_iter >= 1
    /\ Len(drv.returned) < Len(drv.seed)

(***************************************************************************)
(* Colouring PWLS (coloring_partial_weighting.rs): TabuColTenure and the   *)
(* struct PartialWeightingLocalSearch.  `pw` is the search state.          *)
(***************************************************************************)
\* Option::None of `vertex: Option<VertexId>` and of `colors[v]: Option<usize>`
None == -1

\* Weight::MAX of `type Weight = i32`
pw_WeightMAX == 2147483647

\* (lambda * nb_uncolored as f64) as i64 with lambda = 0.01
pw_TabuLambdaPart(nb_uncolored) == nb_uncolored \div 100

\* insert(n, d): only a decision with a vertex is recorded; r is the value
\* drawn from the random number generator
pw_TabuCol_insert(t, n, d, r) ==
    IF d.vertex = None THEN t
    ELSE [t EXCEPT !.decisions[d.vertex][d.color] = t.nb_iter,
                   !.threshold = r + pw_TabuLambdaPart(n.nb_uncolored)]

pw_TabuCol_contains(t, d) ==
    t.decisions[d.vertex][d.color] >= t.nb_iter - t.threshold

\* cost_coloring[u][c] after the loops of initialize
pw_init_cost(g, sol, u, c) ==
    Cardinality({i \in 1..Len(sol[c + 1]) : are_adjacent(g, u, sol[c + 1][i])})

pw_initialize(g, sol) ==
    LET n == g.n
        nb_colors == Len(sol)
        \* colors[v] = Some(i) for the last class i that lists v
        colors == [v \in 0..(n - 1) |->
                     IF \E i \in 1..nb_colors : v \in Range(sol[i])
                     THEN (CHOOSE i \in 1..nb_colors :
                              /\ v \in Range(sol[i])
                              /\ \A j \in (i + 1)..nb_colors : v \notin Range(sol[j])) - 1
                     ELSE None]
    IN [weights |-> [v \in 0..(n - 1) |-> 1],
        current_sol |-> sol,
        colors |-> colors,
        colors_vertices |->
            [c \in 0..(n - 1) |-> IF c < nb_colors THEN Range(sol[c + 1]) ELSE {}],
        colors_vertex_number |->
            [c \in 0..(n - 1) |-> IF c < nb_colors THEN Len(sol[c + 1]) ELSE 0],
        nb_colors |-> nb_colors,
        nb_initial_colors |-> nb_colors,
        nb_colors_best_so_far |-> nb_colors,
        total_weight |-> 0,
        uncolored_vertices |-> <<>>,
        cost_coloring |->
            [u \in 0..(n - 1) |-> [c \in 0..(nb_colors - 1) |-> pw_init_cost(g, sol, u, c)]],
        tabu |-> TabuColTenure_new(n, nb_colors),
        aspiration_criterion |-> I64MAX,
        nb_iter |-> 0]

pw_is_goal(s) == s.total_weight = 0

\* `for v in self.inst.neighbors(u) { self.cost_coloring[v][c] += d }`
RECURSIVE pw_add_cost(_, _, _, _)
pw_add_cost(s, nbs, c, d) ==
    IF nbs = <<>> THEN s
    ELSE pw_add_cost([s EXCEPT !.cost_coloring[Head(nbs)][c] = @ + d], Tail(nbs), c, d)

\* uncolor_vertex that forgets `self.colors_vertex_number[previous_color] -= 1`
pw_uncolor_vertex_no_dec(g, s, u, r) ==
    LET previous_color == s.colors[u]
        s2 == [s EXCEPT !.colors_vertices[previous_color] = @ \ {u}]
        s3 == [s2 EXCEPT !.total_weight = @ + s.weights[u]]
        s4 == [s3 EXCEPT !.colors[u] = None]
        s5 == [s4 EXCEPT !.uncolored_vertices = SparseInsert(@, u)]
        s6 == pw_add_cost(s5, neighbors(g, u), previous_color, 0 - s.weights[u])
        node == [vertex |-> u, color |-> previous_color, total_weight |-> 0,
                 nb_uncolored |-> 0]
    IN [s6 EXCEPT !.tabu = pw_TabuCol_insert(@, node, node, r)]

\* uncolor_vertex that forgets `self.total_weight += self.weights[u]`
pw_uncolor_vertex_no_total(g, s, u, r) ==
    LET previous_color == s.colors[u]
        s1 == [s EXCEPT !.colors_vertex_number[previous_color] = @ - 1]
        s2 == [s1 EXCEPT !.colors_vertices[previous_color] = @ \ {u}]
        s4 == [s2 EXCEPT !.colors[u] = None]
        s5 == [s4 EXCEPT !.uncolored_vertices = SparseInsert(@, u)]
        s6 == pw_add_cost(s5, neighbors(g, u), previous_color, 0 - s.weights[u])
        node == [vertex |-> u, color |-> previous_color, total_weight |-> 0,
                 nb_uncolored |-> 0]
    IN [s6 EXCEPT !.tabu = pw_TabuCol_insert(@, node, node, r)]

\* uncolor_vertex(u) of a coloured vertex u; r is the value drawn by tabu.insert
pw_uncolor_vertex(g, s, u, r) ==
    LET previous_color == s.colors[u]
        s1 == [s EXCEPT !.colors_vertex_number[previous_color] = @ - 1]
        s2 == [s1 EXCEPT !.colors_vertices[previous_color] = @ \ {u}]
        s3 == [s2 EXCEPT !.total_weight = @ + s.weights[u]]
        s4 == [s3 EXCEPT !.colors[u] = None]
        s5 == [s4 EXCEPT !.uncolored_vertices = SparseInsert(@, u)]
        s6 == pw_add_cost(s5, neighbors(g, u), previous_color, 0 - s.weights[u])
        node == [vertex |-> u, color |-> previous_color, total_weight |-> 0,
                 nb_uncolored |-> 0]
    IN [s6 EXCEPT !.tabu = pw_TabuCol_insert(@, node, node, r)]

\* color_vertex that places u with its former weight and increases the
\* weight afterwards
pw_color_vertex_late_increment(g, s, u, c) ==
    LET s1 == [s EXCEPT !.total_weight = @ - s.weights[u]]
        s3 == [s1 EXCEPT !.colors[u] = c]
        s4 == [s3 EXCEPT !.colors_vertex_number[c] = @ + 1]
        s5 == [s4 EXCEPT !.colors_vertices[c] = @ \cup {u}]
        s6 == [s5 EXCEPT !.uncolored_vertices = SparseRemove(@, u)]
        s7 == pw_add_cost(s6, neighbors(g, u), c, s6.weights[u])
    IN [s7 EXCEPT !.weights[u] = @ + 1]

\* color_vertex(u, c) up to the loop `for v in to_uncolor`
pw_color_vertex(g, s, u, c) ==
    LET s1 == [s EXCEPT !.total_weight = @ - s.weights[u]]
        s2 == [s1 EXCEPT !.weights[u] = @ + 1]
        s3 == [s2 EXCEPT !.colors[u] = c]
        s4 == [s3 EXCEPT !.colors_vertex_number[c] = @ + 1]
        s5 == [s4 EXCEPT !.colors_vertices[c] = @ \cup {u}]
        s6 == [s5 EXCEPT !.uncolored_vertices = SparseRemove(@, u)]
    IN pw_add_cost(s6, neighbors(g, u), c, s6.weights[u])

\* to_uncolor that stops at the first vertex of colour c adjacent to u
pw_to_uncolor_first_only(g, s, u, c) ==
    LET all == SetToSortedSeq({v \in s.colors_vertices[c] : are_adjacent(g, u, v)})
    IN  IF all = <<>> THEN <<>> ELSE <<Head(all)>>

\* to_uncolor of color_vertex: the vertices of colour c adjacent to u, in the
\* order of the bitset
pw_to_uncolor(g, s, u, c) ==
    SetToSortedSeq({v \in s.colors_vertices[c] : are_adjacent(g, u, v)})

\* delete_color that takes the first of the smallest classes in use
pw_delete_color_c_min_smallest(s) ==
    CHOOSE c \in DOMAIN s.colors_vertex_number :
        /\ s.colors_vertex_number[c] > 0
        /\ \A d \in DOMAIN s.colors_vertex_number :
              \/ s.colors_vertex_number[d] = 0
              \/ s.colors_vertex_number[d] > s.colors_vertex_number[c]
              \/ (s.colors_vertex_number[d] = s.colors_vertex_number[c] /\ c <= d)

\* c_min of delete_color: max_by_key returns the last of the largest classes
pw_delete_color_c_min(s) ==
    CHOOSE c \in DOMAIN s.colors_vertex_number :
        /\ s.colors_vertex_number[c] > 0
        /\ \A d \in DOMAIN s.colors_vertex_number :
              \/ s.colors_vertex_number[d] < s.colors_vertex_number[c]
              \/ (s.colors_vertex_number[d] = s.colors_vertex_number[c] /\ d <= c)

\* the vertices that delete_color uncolors, in the order of `inst.vertices()`
pw_delete_color_todo(g, s) ==
    SetToSortedSeq({i \in Vertices(g) : s.colors[i] = pw_delete_color_c_min(s)})

pw_update_current_solution(g, s) ==
    LET new_solution == [c \in 1..s.nb_initial_colors |->
                            SetToSortedSeq({v \in Vertices(g) : s.colors[v] = c - 1})]
    IN [s EXCEPT !.current_sol = new_solution,
                 !.nb_colors_best_so_far = @ - 1]

(***************************************************************************)
(* Colouring PWLS: search space (initial, goal, guide, neighbors).         *)
(***************************************************************************)
pw_initial == [vertex |-> None, color |-> 0, total_weight |-> 0, nb_uncolored |-> 0]

pw_goal(n) == n.total_weight = 0

pw_guide(n) == n.total_weight

\* first element of best_nodes of neighbors
pw_PlaceholderNode(s) ==
    [vertex |-> None, color |-> 0, total_weight |-> pw_WeightMAX,
     nb_uncolored |-> Len(s.uncolored_vertices)]

\* `for (c,_) in colors_vertex_number...filter(|(_,n)| **n > 0)`, from colour c on
RECURSIVE pw_nb_colors_loop(_, _, _, _)
pw_nb_colors_loop(s, u, c, best_nodes) ==
    IF c \notin DOMAIN s.colors_vertex_number THEN best_nodes
    ELSE IF s.colors_vertex_number[c] = 0 THEN pw_nb_colors_loop(s, u, c + 1, best_nodes)
    ELSE LET weight == s.total_weight + s.cost_coloring[u][c] - s.weights[u]
             current_node == [vertex |-> u, color |-> c, total_weight |-> weight,
                              nb_uncolored |-> Len(s.uncolored_vertices)]
             is_tabu == pw_TabuCol_contains(s.tabu, current_node)
         IN IF /\ weight <= best_nodes[1].total_weight
               /\ (best_nodes[1].total_weight = pw_WeightMAX \/ ~is_tabu)
            THEN pw_nb_colors_loop(s, u, c + 1,
                     IF weight < best_nodes[1].total_weight
                     THEN <<current_node>>
                     ELSE Append(best_nodes, current_node))
            ELSE pw_nb_colors_loop(s, u, c + 1, best_nodes)

\* `for u in self.uncolored_vertices.iter()`, from position i on
RECURSIVE pw_nb_scan(_, _, _)
pw_nb_scan(s, i, best_nodes) ==
    IF i >= Len(s.uncolored_vertices) THEN best_nodes
    ELSE pw_nb_scan(s, i + 1,
                    pw_nb_colors_loop(s, s.uncolored_vertices[i + 1], 0, best_nodes))

\* ToSolution::solution
pw_solution(s) == SelectSeq(s.current_sol, LAMBDA e : e # <<>>)

(***************************************************************************)
(* Colouring PWLS as run by coloring_partial_weighting under dogs' Greedy. *)
(*   drv.pc    "outer" (Greedy calls neighbors(node) unless stopped),      *)
(*             "uncolor" (inside a loop of uncolor_vertex calls),          *)
(*             "check" (`if self.is_goal()` of commit), "scan" (the scan   *)
(*             of neighbors), "done"                                       *)
(*   drv.after which loop "uncolor" is in: that of color_vertex ("check")  *)
(*             or that of delete_color ("delete")                          *)
(***************************************************************************)
InitPWLS ==
    \E g \in Graphs : \E sol \in Seeds(g) :
        /\ inst = g
        /\ cw = Idle
        /\ pw = pw_initialize(g, sol)
        /\ cq = Idle
        /\ io = Idle
        /\ drv = [pc |-> "outer", stop |-> FALSE, node |-> pw_initial, todo |-> <<>>,
                  after |-> "check", seed |-> sol, phases |-> 0, has_best |-> FALSE,
                  returned |-> <<>>]

\* neighbors(node), commit: increment_iter, and for a node with a vertex
\* color_vertex up to its loop of uncolor_vertex calls
PwCommit ==
    /\ drv.pc = "outer"
    /\ ~drv.stop
    /\ pw.tabu.nb_iter < MaxIter
    /\ LET s1 == [pw EXCEPT !.tabu = TabuCol_increment_iter(@)]
           s2 == [s1 EXCEPT !.nb_iter = @ + 1]
           s3 == pw_color_vertex(inst, s2, drv.node.vertex, drv.node.color)
       IN IF drv.node.vertex = None
          THEN /\ pw' = s1
               /\ drv' = [drv EXCEPT !.pc = "check"]
          ELSE /\ pw' = s3
               /\ drv' = [drv EXCEPT !.pc = "uncolor", !.after = "check",
                             !.todo = pw_to_uncolor(inst, s3, drv.node.vertex,
                                                    drv.node.color)]
    /\ UNCHANGED <<inst, cw, cq, io>>

\* one call of uncolor_vertex in `for v in to_uncolor` of color_vertex or in
\* `for i in self.inst.vertices()` of delete_color
PwUncolor ==
    /\ drv.pc = "uncolor"
    /\ drv.todo # <<>>
    /\ \E r \in 0..(TabuL - 1) : pw' = pw_uncolor_vertex(inst, pw, Head(drv.todo), r)
    /\ drv' = [drv EXCEPT !.todo = Tail(@)]
    /\ UNCHANGED <<inst, cw, cq, io>>

\* end of color_vertex
PwColorEnd ==
    /\ drv.pc = "uncolor"
    /\ drv.todo = <<>>
    /\ drv.after = "check"
    /\ drv' = [drv EXCEPT !.pc = "check"]
    /\ UNCHANGED <<inst, cw, pw, cq, io>>

\* commit: `if self.is_goal() { update_current_solution(); delete_color() }`,
\* up to the loop of delete_color
PwCheck ==
    /\ drv.pc = "check"
    /\ IF pw_is_goal(pw)
       THEN /\ pw' = pw_update_current_solution(inst, pw)
            /\ drv' = [drv EXCEPT !.pc = "uncolor", !.after = "delete",
                                  !.todo = pw_delete_color_todo(inst, pw),
                                  !.phases = @ + 1]
       ELSE /\ pw' = pw
            /\ drv' = [drv EXCEPT !.pc = "scan"]
    /\ UNCHANGED <<inst, cw, cq, io>>

\* end of delete_color: `self.nb_colors -= 1`
PwDeleteEnd ==
    /\ drv.pc = "uncolor"
    /\ drv.todo = <<>>
    /\ drv.after = "delete"
    /\ pw' = [pw EXCEPT !.nb_colors = @ - 1]
    /\ drv' = [drv EXCEPT !.pc = "scan"]
    /\ UNCHANGED <<inst, cw, cq, io>>

\* neighbors(node), the scan; Greedy continues with a returned node of minimum
\* guide and records a goal node
PwScan ==
    /\ drv.pc = "scan"
    /\ LET nodes == pw_nb_scan(pw, 0, <<pw_PlaceholderNode(pw)>>)
       IN \E i \in 1..Len(nodes) :
             /\ \A j \in 1..Len(nodes) : pw_guide(nodes[i]) <= pw_guide(nodes[j])
             /\ drv' = [drv EXCEPT !.pc = "outer",
                                   !.node = nodes[i],
                                   !.has_best = @ \/ pw_goal(nodes[i])]
    /\ UNCHANGED <<inst, cw, pw, cq, io>>

\* coloring_partial_weighting after ts.run(stop)
PwReturn ==
    /\ drv.pc = "outer"
    /\ drv.stop
    /\ drv' = [drv EXCEPT !.pc = "done",
                          !.returned = IF drv.has_best THEN pw_solution(pw) ELSE drv.seed]
    /\ UNCHANGED <<inst, cw, pw, cq, io>>

NextPWLS ==
    \/ Stop
    \/ PwCommit
    \/ PwUncolor
    \/ PwColorEnd
    \/ PwCheck
    \/ PwDeleteEnd
    \/ PwScan
    \/ PwReturn

SpecPWLS == InitPWLS /\ [][NextPWLS]_vars

(***************************************************************************)
(* Properties of colouring PWLS.                                           *)
(***************************************************************************)
\* the vertices without colour
Uncolored(g, s) == {v \in Vertices(g) : s.colors[v] = None}

\* C8: colors_vertex_number[c] is the number of vertices whose colour is c
\* (the vertices of colors_vertices[c]), the uncoloured vertices are those of
\* uncolored_vertices, and the class sizes plus their number sum up to n
C8_ClassSizesPartial ==
    /\ \A c \in DOMAIN pw.colors_vertex_number :
          /\ pw.colors_vertex_number[c] =
                Cardinality({v \in Vertices(inst) : pw.colors[v] = c})
          /\ pw.colors_vertices[c] = {v \in Vertices(inst) : pw.colors[v] = c}
    /\ Range(pw.uncolored_vertices) = Uncolored(inst, pw)
    /\ Len(pw.uncolored_vertices) = Cardinality(Uncolored(inst, pw))
    /\ SumSet(DOMAIN pw.colors_vertex_number, pw.colors_vertex_number)
          + Len(pw.uncolored_vertices) = inst.n

\* a colour was deleted, a vertex was coloured again and that threw a
\* neighbour out of its class
C8_Witness ==
    /\ drv.pc = "scan"
    /\ pw.nb_iter >= 2
    /\ pw.nb_colors < pw.nb_initial_colors
    /\ Len(pw.uncolored_vertices) >= 2
    /\ \E v \in Uncolored(inst, pw) : pw.weights[v] >= 2

\* C9: total_weight is the sum of the weights of the uncoloured vertices, and
\* it is 0 exactly when every vertex has a colour
C9_TotalWeightPartial ==
    /\ pw.total_weight = SumSet(Uncolored(inst, pw), pw.weights)
    /\ pw_is_goal(pw) <=> Uncolored(inst, pw) = {}

\* the colouring became total again after colour moves, with grown weights
C9_Witness ==
    /\ drv.pc = "check"
    /\ pw.nb_iter >= 2
    /\ pw_is_goal(pw)
    /\ \E v \in Vertices(inst) : pw.weights[v] >= 2

(***************************************************************************)
(* Colouring PWLS: the primitives as whole calls.                          *)
(***************************************************************************)
\* a loop of uncolor_vertex calls over todo; every call draws a value for the
\* tabu threshold and only the last one drawn stays, r
RECURSIVE pw_uncolor_all(_, _, _, _)
pw_uncolor_all(g, s, todo, r) ==
    IF todo = <<>> THEN s
    ELSE pw_uncolor_all(g, pw_uncolor_vertex(g, s, Head(todo), r), Tail(todo), r)

\* color_vertex(u, c) with its loop `for v in to_uncolor`
pw_color_vertex_all(g, s, u, c, r) ==
    LET s1 == pw_color_vertex(g, s, u, c)
    IN pw_uncolor_all(g, s1, pw_to_uncolor(g, s1, u, c), r)

\* delete_color()
pw_delete_color(g, s, r) ==
    [pw_uncolor_all(g, s, pw_delete_color_todo(g, s), r) EXCEPT !.nb_colors = @ - 1]

\* commit(node)
pw_commit(g, s, node, r) ==
    LET s1 == [s EXCEPT !.tabu = TabuCol_increment_iter(@)]
        s2 == IF node.vertex = None THEN s1
              ELSE pw_color_vertex_all(g, [s1 EXCEPT !.nb_iter = @ + 1],
                                       node.vertex, node.color, r)
    IN IF pw_is_goal(s2)
       THEN pw_delete_color(g, pw_update_current_solution(g, s2), r)
       ELSE s2

(***************************************************************************)
(* Sequences of moves of the colouring cores: any sequence of calls of     *)
(* change_vertex_color (CWLS) or of commit (PWLS) from the state that      *)
(* initialize builds.  The arithmetic on `Weight = u16` is that of the     *)
(* build: a release build wraps around, a debug build panics.              *)
(***************************************************************************)
\* the graph with the vertices 0, 1 and the edge {0, 1}
OneEdge == MkGraph(2, {{0, 1}})

InitMoves ==
    \/ /\ inst = OneEdge
       /\ \E sol \in Seeds(inst) : cw = initialize(inst, sol)
       /\ pw = Idle
       /\ cq = Idle
       /\ io = Idle
       /\ drv = [pc |-> "moves"]
    \/ /\ inst \in Graphs
       /\ cw = Idle
       /\ \E sol \in Seeds(inst) : pw = pw_initialize(inst, sol)
       /\ cq = Idle
       /\ io = Idle
       /\ drv = [pc |-> "moves"]

\* does change_vertex_color(v, c) add 1 to an edge weight that is u16::MAX
cvc_overflows(g, s, v, c) ==
    \E i \in 1..Len(neighbors(g, v)) :
        /\ s.colors[neighbors(g, v)[i]] = c
        /\ get_weight(s, neighbors(g, v)[i], v) = WeightMAX

\* change_vertex_color(v, c), as merge_colors and commit call it
CwMove ==
    /\ drv.pc = "moves"
    /\ cw # Idle
    /\ \E v \in Vertices(inst) : \E c \in 0..(cw.nb_colors - 1) :
          /\ c # cw.colors[v]
          /\ cw' = change_vertex_color(inst, cw, v, c)
    /\ UNCHANGED <<inst, pw, drv, cq, io>>

\* the same call in a build with overflow checks: `attempt to add with overflow`
CwMovePanics ==
    /\ drv.pc = "moves"
    /\ cw # Idle
    /\ \E v \in Vertices(inst) : \E c \in 0..(cw.nb_colors - 1) :
          /\ c # cw.colors[v]
          /\ cvc_overflows(inst, cw, v, c)
    /\ drv' = [drv EXCEPT !.pc = "panic"]
    /\ UNCHANGED <<inst, cw, pw, cq, io>>

\* commit(node) of PWLS for the initial node or for a node that neighbors
\* can return: an uncoloured vertex and a colour in use
PwMove ==
    /\ drv.pc = "moves"
    /\ pw # Idle
    /\ pw.tabu.nb_iter < MaxIter
    /\ \E r \in 0..(TabuL - 1) :
          \/ pw' = pw_commit(inst, pw, pw_initial, r)
          \/ \E u \in Range(pw.uncolored_vertices) :
             \E c \in DOMAIN pw.colors_vertex_number :
                /\ pw.colors_vertex_number[c] > 0
                /\ pw' = pw_commit(inst, pw,
                                   [vertex |-> u, color |-> c, total_weight |-> 0,
                                    nb_uncolored |-> Len(pw.uncolored_vertices)], r)
    /\ UNCHANGED <<inst, cw, drv, cq, io>>

NextMoves ==
    \/ CwMove
    \/ CwMovePanics
    \/ PwMove

SpecMoves == InitMoves /\ [][NextMoves]_vars

MaxTabuIter == 2

MaxInfeasibility == 2

TabuVertices == 0..1

TabuColors == 0..1

\* CliqueSwapTenure::new(l, lambda, n)
CliqueSwapTenure_new(n) ==
    [nb_iter |-> 0, decisions |-> [v \in 0..(n - 1) |-> None]]

\* insert(_n, d): the node is ignored, no threshold is kept
CliqueSwap_insert(t, n, d) == [t EXCEPT !.decisions[d] = t.nb_iter]

\* contains(n, d); rand_l is the value drawn from 0..=l inside the call
CliqueSwap_contains(t, n, d, rand_l) ==
    IF t.decisions[d] = None
    THEN FALSE
    ELSE LET threshold == rand_l + TabuLambdaPart(n)
         IN  \/ threshold > t.nb_iter
             \/ t.decisions[d] >= t.nb_iter - threshold

CliqueSwap_increase_iter(t) == [t EXCEPT !.nb_iter = @ + 1]

\* the decisions of the colouring tenure: a vertex leaving one colour for another
TabuDecisions ==
    {[vertex |-> v, previous_color |-> a, next_color |-> b] :
        v \in TabuVertices, a \in TabuColors, b \in TabuColors}

\* The call log next to the tenure: log.last_use[m] is the iteration of the
\* latest insert of key m (None before the first), log.f and log.r are the
\* infeasibility and the draw of the latest insert, log.asked and log.answer
\* are the key and the result of the latest contains
\* (<<>> when an insert or an increment came after it).
InitTabu ==
    /\ inst = OneEdge
    /\ cw = Idle
    /\ pw = Idle
    /\ cq = Idle
    /\ drv = Idle
    /\ \/ io = [pc |-> "tabu", kind |-> "coloring",
                tabu |-> TabuColTenure_new(2, 2),
                last_use |-> [m \in TabuVertices \X TabuColors |-> None],
                f |-> 0, r |-> 0, asked |-> <<>>, answer |-> FALSE]
       \/ io = [pc |-> "tabu", kind |-> "clique",
                tabu |-> CliqueSwapTenure_new(2),
                last_use |-> [m \in {<<v>> : v \in TabuVertices} |-> None],
                f |-> 0, r |-> 0, asked |-> <<>>, answer |-> FALSE]

TabuColInsert ==
    /\ io.pc = "tabu" /\ io.kind = "coloring"
    /\ \E d \in TabuDecisions, f \in 0..MaxInfeasibility, r \in 0..(TabuL - 1) :
          io' = [io EXCEPT
                   !.tabu = TabuCol_insert(@, [nb_conflicts |-> f], d, r),
                   !.last_use[<<d.vertex, d.previous_color>>] = io.tabu.nb_iter,
                   !.f = f, !.r = r, !.asked = <<>>, !.answer = FALSE]
    /\ UNCHANGED <<inst, cw, pw, cq, drv>>

TabuColContains ==
    /\ io.pc = "tabu" /\ io.kind = "coloring"
    /\ \E d \in TabuDecisions :
          io' = [io EXCEPT !.asked = <<d.vertex, d.next_color>>,
                           !.answer = TabuCol_contains(io.tabu, d)]
    /\ UNCHANGED <<inst, cw, pw, cq, drv>>

TabuColIncrement ==
    /\ io.pc = "tabu" /\ io.kind = "coloring"
    /\ io.tabu.nb_iter < MaxTabuIter
    /\ io' = [io EXCEPT !.tabu = TabuCol_increment_iter(@),
                        !.asked = <<>>, !.answer = FALSE]
    /\ UNCHANGED <<inst, cw, pw, cq, drv>>

\* the clique tenure draws nothing in insert: r is logged as the draw that a
\* threshold set at this point would have used
CliqueSwapInsert ==
    /\ io.pc = "tabu" /\ io.kind = "clique"
    /\ \E d \in TabuVertices, f \in 0..MaxInfeasibility, r \in 0..TabuL :
          io' = [io EXCEPT !.tabu = CliqueSwap_insert(@, f, d),
                           !.last_use[<<d>>] = io.tabu.nb_iter,
                           !.f = f, !.r = r, !.asked = <<>>, !.answer = FALSE]
    /\ UNCHANGED <<inst, cw, pw, cq, drv>>

CliqueSwapContains ==
    /\ io.pc = "tabu" /\ io.kind = "clique"
    /\ \E d \in TabuVertices, n \in 0..MaxInfeasibility, rand_l \in 0..TabuL :
          io' = [io EXCEPT !.asked = <<d>>,
                           !.answer = CliqueSwap_contains(io.tabu, n, d, rand_l)]
    /\ UNCHANGED <<inst, cw, pw, cq, drv>>

CliqueSwapIncrease ==
    /\ io.pc = "tabu" /\ io.kind = "clique"
    /\ io.tabu.nb_iter < MaxTabuIter
    /\ io' = [io EXCEPT !.tabu = CliqueSwap_increase_iter(@),
                        !.asked = <<>>, !.answer = FALSE]
    /\ UNCHANGED <<inst, cw, pw, cq, drv>>

NextTabu ==
    \/ TabuColInsert
    \/ TabuColContains
    \/ TabuColIncrement
    \/ CliqueSwapInsert
    \/ CliqueSwapContains
    \/ CliqueSwapIncrease

SpecTabu == InitTabu /\ [][NextTabu]_vars

\* what the tenure's contract gives for the latest contains: the key was
\* inserted, and no more than threshold iterations ago, the threshold being
\* the one set by the latest insert
TabuByContract ==
    /\ io.last_use[io.asked] # None
    /\ io.last_use[io.asked] >= io.tabu.nb_iter - (io.r + TabuLambdaPart(io.f))

\* C11: after insert(m, f) recorded last_use[m] = iter and set threshold =
\* randint(0, L) + floor(lambda * f), contains(m) answers true exactly when
\* last_use[m] >= iter - threshold, and a key never inserted is never tabu.
C11_TabuContract ==
    (io.pc = "tabu" /\ io.asked # <<>>) => (io.answer <=> TabuByContract)

\* C11 for the colouring tenure alone
C11_ColoringTenure ==
    (io.pc = "tabu" /\ io.kind = "coloring" /\ io.asked # <<>>)
        => (io.answer <=> TabuByContract)

\* C11, last part: a key never inserted is never reported tabu
C11_NeverInsertedNotTabu ==
    (io.pc = "tabu" /\ io.asked # <<>> /\ io.last_use[io.asked] = None)
        => ~io.answer

\* ---------------------------------------------------------------------
\* cgshop.rs: the segment predicate that builds the CGSHOP adjacency.
\* A point is a pair <<x, y>>, a segment a pair of points <<p, q>>.
\* ---------------------------------------------------------------------

MaxCoord == 3

Max(a, b) == IF a >= b THEN a ELSE b

orientation(p, q, r) ==
    LET val == (q[2] - p[2]) * (r[1] - q[1]) - (q[1] - p[1]) * (r[2] - q[2])
    IN  IF val = 0 THEN "Collinear"
        ELSE IF val > 0 THEN "Clockwise" ELSE "CounterClockwise"

\* on_segment with the test on the second coordinate left out
on_segment_first_only(p, q, r) ==
    q[1] <= Max(p[1], r[1]) /\ q[1] >= Min(p[1], r[1])

on_segment(p, q, r) ==
    /\ q[1] <= Max(p[1], r[1]) /\ q[1] >= Min(p[1], r[1])
    /\ q[2] <= Max(p[2], r[2]) /\ q[2] >= Min(p[2], r[2])

\* same_points with the test on the point q2 left out
same_points_first_only(p1, q1, p2, q2, o1, o2) ==
    o1 = "Collinear" /\ p1 # p2 /\ q1 # p2

\* the branch of are_intersecting taken when the segments have a point in common
same_points(p1, q1, p2, q2, o1, o2) ==
    \/ (o1 = "Collinear" /\ p1 # p2 /\ q1 # p2)
    \/ (o2 = "Collinear" /\ p1 # q2 /\ q1 # q2)

\* are_intersecting without the two tests on the orientations o3 and o4 of
\* the points of the first segment
are_intersecting_one_sided(a, b) ==
    LET p1 == a[1]
        q1 == a[2]
        p2 == b[1]
        q2 == b[2]
        o1 == orientation(p1, q1, p2)
        o2 == orientation(p1, q1, q2)
        o3 == orientation(p2, q2, p1)
        o4 == orientation(p2, q2, q1)
    IN  IF p1 = p2 \/ p1 = q2 \/ q1 = p2 \/ q1 = q2
        THEN same_points(p1, q1, p2, q2, o1, o2)
        ELSE IF o1 # o2 /\ o3 # o4 THEN TRUE
        ELSE IF o1 = "Collinear" /\ on_segment(p1, p2, q1) THEN TRUE
        ELSE IF o2 = "Collinear" /\ on_segment(p1, q2, q1) THEN TRUE
        ELSE FALSE

are_intersecting(a, b) ==
    LET p1 == a[1]
        q1 == a[2]
        p2 == b[1]
        q2 == b[2]
        o1 == orientation(p1, q1, p2)
        o2 == orientation(p1, q1, q2)
        o3 == orientation(p2, q2, p1)
        o4 == orientation(p2, q2, q1)
    IN  IF p1 = p2 \/ p1 = q2 \/ q1 = p2 \/ q1 = q2
        THEN same_points(p1, q1, p2, q2, o1, o2)
        ELSE IF o1 # o2 /\ o3 # o4 THEN TRUE
        ELSE IF o1 = "Collinear" /\ on_segment(p1, p2, q1) THEN TRUE
        ELSE IF o2 = "Collinear" /\ on_segment(p1, q2, q1) THEN TRUE
        ELSE IF o3 = "Collinear" /\ on_segment(p2, p1, q2) THEN TRUE
        ELSE IF o4 = "Collinear" /\ on_segment(p2, q1, q2) THEN TRUE
        ELSE FALSE

GridPoints == (0..MaxCoord) \X (0..MaxCoord)

\* the segments of an instance join two distinct points
GridSegments == {s \in GridPoints \X GridPoints : s[1] # s[2]}

\* the pairs of segments of the unit tests of cgshop.rs
TestPairs ==
    { << <<<<0, 0>>, <<0, 1>>>>, <<<<0, 0>>, <<0, 5>>>> >>,
      << <<<<1, 1>>, <<10, 1>>>>, <<<<1, 2>>, <<10, 2>>>> >>,
      << <<<<10, 0>>, <<0, 10>>>>, <<<<0, 0>>, <<10, 10>>>> >>,
      << <<<<-5, -4>>, <<0, 0>>>>, <<<<1, 1>>, <<10, 10>>>> >>,
      << <<<<0, 0>>, <<0, 5>>>>, <<<<0, 0>>, <<5, 0>>>> >> }

InitSegments ==
    /\ inst = OneEdge
    /\ cw = Idle
    /\ pw = Idle
    /\ cq = Idle
    /\ drv = Idle
    /\ \E ab \in (GridSegments \X GridSegments) \cup TestPairs :
          io = [pc |-> "segments", a |-> ab[1], b |-> ab[2],
                called |-> FALSE, result |-> FALSE]

AreIntersecting ==
    /\ io.pc = "segments"
    /\ ~io.called
    /\ io' = [io EXCEPT !.called = TRUE,
                        !.result = are_intersecting(io.a, io.b)]
    /\ UNCHANGED <<inst, cw, pw, cq, drv>>

NextSegments == AreIntersecting

SpecSegments == InitSegments /\ [][NextSegments]_vars

\* the geometry the claims speak of, stated on the points themselves
SharedPoints(a, b) == {a[1], a[2]} \cap {b[1], b[2]}

Cross(s, u, v) ==
    (u[1] - s[1]) * (v[2] - s[2]) - (u[2] - s[2]) * (v[1] - s[1])

Dot(s, u, v) ==
    (u[1] - s[1]) * (v[1] - s[1]) + (u[2] - s[2]) * (v[2] - s[2])

OtherEnd(seg, s) == IF seg[1] = s THEN seg[2] ELSE seg[1]

\* two segments that leave the point s along one line in one direction:
\* they are collinear and have more than the point s in common
OverlapFrom(s, a, b) ==
    /\ Cross(s, OtherEnd(a, s), OtherEnd(b, s)) = 0
    /\ Dot(s, OtherEnd(a, s), OtherEnd(b, s)) > 0

Called == io.pc = "segments" /\ io.called

\* C12: two segments that share exactly one endpoint are reported as
\* intersecting only when they are collinear and overlap on a portion of
\* positive length; collinear segments that only touch at the shared
\* endpoint are reported as not intersecting.
C12_SharedEndpointPolicy ==
    (Called /\ Cardinality(SharedPoints(io.a, io.b)) = 1)
        => LET s == CHOOSE x \in SharedPoints(io.a, io.b) : TRUE
           IN  io.result <=> OverlapFrom(s, io.a, io.b)

\* C12, first part alone: segments with exactly one common endpoint that are
\* not collinear are reported as not intersecting
C12_NotCollinearAccepted ==
    (Called /\ Cardinality(SharedPoints(io.a, io.b)) = 1)
        => LET s == CHOOSE x \in SharedPoints(io.a, io.b) : TRUE
           IN  Cross(s, OtherEnd(io.a, s), OtherEnd(io.b, s)) # 0 => ~io.result

\* the sign of (q.y - p.y)(r.x - q.x) - (q.x - p.x)(r.y - q.y)
Ori(p, q, r) ==
    LET val == (q[2] - p[2]) * (r[1] - q[1]) - (q[1] - p[1]) * (r[2] - q[2])
    IN  IF val > 0 THEN 1 ELSE IF val < 0 THEN -1 ELSE 0

\* the point r lies within the bounding box of the segment seg
InBox(seg, r) ==
    /\ \E i \in 1..2 : seg[i][1] <= r[1]
    /\ \E i \in 1..2 : seg[i][1] >= r[1]
    /\ \E i \in 1..2 : seg[i][2] <= r[2]
    /\ \E i \in 1..2 : seg[i][2] >= r[2]

FourOrientations(a, b) ==
    \/ /\ Ori(a[1], a[2], b[1]) # Ori(a[1], a[2], b[2])
       /\ Ori(b[1], b[2], a[1]) # Ori(b[1], b[2], a[2])
    \/ \E r \in {b[1], b[2]} : Ori(a[1], a[2], r) = 0 /\ InBox(a, r)
    \/ \E r \in {a[1], a[2]} : Ori(b[1], b[2], r) = 0 /\ InBox(b, r)

\* C13: for two segments without a common endpoint are_intersecting is true
\* exactly when o1 # o2 and o3 # o4, or one of the four orientations is
\* collinear and its third point lies within the bounding box of the other
\* segment; the crossing pair of the tests gives true, the parallel pair and
\* the disjoint collinear pair give false.
C13_FourOrientationTest ==
    /\ (Called /\ SharedPoints(io.a, io.b) = {})
          => (io.result <=> FourOrientations(io.a, io.b))
    /\ (Called /\ io.a = <<<<10, 0>>, <<0, 10>>>>
               /\ io.b = <<<<0, 0>>, <<10, 10>>>>) => io.result
    /\ (Called /\ io.a = <<<<1, 1>>, <<10, 1>>>>
               /\ io.b = <<<<1, 2>>, <<10, 2>>>>) => ~io.result
    /\ (Called /\ io.a = <<<<-5, -4>>, <<0, 0>>>>
               /\ io.b = <<<<1, 1>>, <<10, 10>>>>) => ~io.result

\* a collinear pair without a common endpoint that overlaps, reported as such
C13_Witness ==
    /\ Called
    /\ SharedPoints(io.a, io.b) = {}
    /\ Ori(io.a[1], io.a[2], io.b[1]) = 0
    /\ Ori(io.a[1], io.a[2], io.b[2]) = 0
    /\ io.result

\* C14: two collinear segments that share an endpoint and overlap on a
\* portion of positive length, such as (0,0)-(0,1) and (0,0)-(0,5), are
\* reported as intersecting.
C14_CollinearOverlapConflict ==
    /\ (Called /\ Cardinality(SharedPoints(io.a, io.b)) = 1)
          => LET s == CHOOSE x \in SharedPoints(io.a, io.b) : TRUE
             IN  OverlapFrom(s, io.a, io.b) => io.result
    /\ (Called /\ io.a = <<<<0, 0>>, <<0, 1>>>>
               /\ io.b = <<<<0, 0>>, <<0, 5>>>>) => io.result

\* the pair of the test colinear_with_same_point after the call
C14_Witness ==
    /\ Called
    /\ io.a = <<<<0, 0>>, <<0, 1>>>>
    /\ io.b = <<<<0, 0>>, <<0, 5>>>>
    /\ OverlapFrom(<<0, 0>>, io.a, io.b)
    /\ io.result

\* ---------------------------------------------------------------------
\* color.rs: the solution checker, called on a list of classes whose
\* entries are vertex ids of the instance.
\* ---------------------------------------------------------------------

MaxEntries == 4

MaxClasses == 3

\* the entries of the classes in the order of the loops `for c in sol, for v in c`
Flatten(sol) ==
    LET RECURSIVE flat(_)
        flat(c) == IF c > Len(sol) THEN <<>> ELSE sol[c] \o flat(c + 1)
    IN  flat(1)

\* first loop: the first entry that was visited before
first_added_twice(flat) ==
    LET again == {i \in 1..Len(flat) : \E j \in 1..(i - 1) : flat[j] = flat[i]}
    IN  IF again = {} THEN None
        ELSE flat[CHOOSE i \in again : \A j \in again : i <= j]

\* third loop: the first pair v1, v2 of one class with are_adjacent(v1, v2)
first_conflict(g, sol) ==
    LET all == UNION {{<<c, i, j>> : i \in 1..Len(sol[c]), j \in 1..Len(sol[c])} :
                         c \in 1..Len(sol)}
        at == {t \in all : are_adjacent(g, sol[t[1]][t[2]], sol[t[1]][t[3]])}
        before(s, t) == VecLess(s, t) \/ s = t
    IN  IF at = {} THEN <<>>
        ELSE LET t == CHOOSE s \in at : \A u \in at : before(s, u)
             IN  <<sol[t[1]][t[2]], sol[t[1]][t[3]]>>

\* checker with the test on the number of visited vertices left out
checker_skips_count(g, sol) ==
    LET flat == Flatten(sol)
        twice == first_added_twice(flat)
        edge == first_conflict(g, sol)
    IN  IF twice # None
        THEN [kind |-> "VertexAddedTwice", v |-> twice]
        ELSE IF edge # <<>>
        THEN [kind |-> "ConflictingEdge", u |-> edge[1], v |-> edge[2]]
        ELSE [kind |-> "Ok", k |-> Len(sol)]

checker(g, sol) ==
    LET flat == Flatten(sol)
        twice == first_added_twice(flat)
        visited == Range(flat)
        missing == Vertices(g) \ visited
        edge == first_conflict(g, sol)
    IN  IF twice # None
        THEN [kind |-> "VertexAddedTwice", v |-> twice]
        ELSE IF Cardinality(visited) # g.n
        THEN IF missing # {}
             THEN [kind |-> "VertexNotColored",
                   v |-> CHOOSE v \in missing : \A w \in missing : v <= w]
             ELSE [kind |-> "panic"]
        ELSE IF edge # <<>>
        THEN [kind |-> "ConflictingEdge", u |-> edge[1], v |-> edge[2]]
        ELSE [kind |-> "Ok", k |-> Len(sol)]

\* the ways of cutting the list flat into k consecutive classes, empty
\* classes included
CutInto(flat, k) ==
    LET len == Len(flat)
    IN  { [c \in 1..k |->
              SubSeq(flat,
                     (IF c = 1 THEN 0 ELSE cuts[c - 1]) + 1,
                     IF c = k THEN len ELSE cuts[c])]
          : cuts \in {f \in [1..(k - 1) -> 0..len] :
                         \A i \in 1..(k - 2) : f[i] <= f[i + 1]} }

\* the class lists handed to the checker: up to MaxClasses classes (empty
\* ones included) that hold up to MaxEntries vertex ids between them
ClassLists(g) ==
    {<<>>} \cup
    UNION { CutInto(flat, k) :
              flat \in UNION {[1..len -> Vertices(g)] : len \in 0..MaxEntries},
              k \in 1..MaxClasses }

CheckerGraphs == {g \in Graphs : g.n <= 3}

InitChecker ==
    /\ \E g \in CheckerGraphs : \E sol \in ClassLists(g) :
          /\ inst = g
          /\ io = [pc |-> "checker", sol |-> sol, result |-> [kind |-> "none"]]
    /\ cw = Idle
    /\ pw = Idle
    /\ cq = Idle
    /\ drv = Idle

Checker ==
    /\ io.pc = "checker"
    /\ io.result.kind = "none"
    /\ io' = [io EXCEPT !.result = checker(inst, io.sol)]
    /\ UNCHANGED <<inst, cw, pw, cq, drv>>

NextChecker == Checker

SpecChecker == InitChecker /\ [][NextChecker]_vars

\* how often the vertex v is listed in the classes of sol
Occurrences(sol, v) ==
    Cardinality({p \in UNION {{<<c, i>> : i \in 1..Len(sol[c])} : c \in 1..Len(sol)} :
                    sol[p[1]][p[2]] = v})

SameClassAdjacent(g, sol, u, v) ==
    /\ are_adjacent(g, u, v)
    /\ \E c \in 1..Len(sol) : {u, v} \subseteq Range(sol[c])

\* C15: the checker answers VertexAddedTwice(v) when a vertex v is listed
\* more than once, VertexNotColored(v) when a vertex v is in no class,
\* ConflictingEdge(u, v) when two adjacent vertices are in one class, and
\* Ok(k) only for a feasible colouring of all the vertices, k being its
\* number of classes; the first defect in this order is the one reported.
C15_CheckerVariants ==
    (io.pc = "checker" /\ io.result.kind # "none") =>
        LET r == io.result
            twice == \E v \in Vertices(inst) : Occurrences(io.sol, v) > 1
            uncolored == \E v \in Vertices(inst) : Occurrences(io.sol, v) = 0
            conflict == \E u, v \in Vertices(inst) :
                            SameClassAdjacent(inst, io.sol, u, v)
        IN  /\ r.kind \in {"VertexAddedTwice", "VertexNotColored",
                           "ConflictingEdge", "Ok"}
            /\ r.kind = "VertexAddedTwice"
                  <=> twice
            /\ r.kind = "VertexAddedTwice" => Occurrences(io.sol, r.v) > 1
            /\ r.kind = "VertexNotColored"
                  <=> (~twice /\ uncolored)
            /\ r.kind = "VertexNotColored" => Occurrences(io.sol, r.v) = 0
            /\ r.kind = "ConflictingEdge"
                  <=> (~twice /\ ~uncolored /\ conflict)
            /\ r.kind = "ConflictingEdge"
                  => SameClassAdjacent(inst, io.sol, r.u, r.v)
            /\ r.kind = "Ok"
                  => (Feasible(inst, io.sol) /\ r.k = Len(io.sol))
            /\ Feasible(inst, io.sol) => r.kind = "Ok"

\* a list with every vertex in one class and an edge inside a class, after
\* the call
C15_Witness ==
    /\ io.pc = "checker"
    /\ io.result = [kind |-> "ConflictingEdge", u |-> 1, v |-> 2]
    /\ Len(io.sol) = 2
    /\ \A v \in Vertices(inst) : Occurrences(io.sol, v) = 1

\* ---------------------------------------------------------------------
\* util.rs: export_results(instance, solution, stats, perf_file, sol_file,
\* check_result). io.sol_file tells whether a solution file is asked for,
\* io.stdout is what was printed, io.file the content of the solution file
\* (<<>> while it is not written).
\* ---------------------------------------------------------------------

InitExport ==
    /\ \E g \in CheckerGraphs : \E sol \in ClassLists(g) :
          /\ inst = g
          /\ \E sol_file \in BOOLEAN, check_result \in BOOLEAN :
                io = [pc |-> "export", solution |-> sol,
                      sol_file |-> sol_file, check_result |-> check_result,
                      checker_result |-> [kind |-> "none"],
                      stdout |-> <<>>, file |-> <<>>]
    /\ cw = Idle
    /\ pw = Idle
    /\ cq = Idle
    /\ drv = Idle

\* match sol_file { None => {} }
ExportNoFile ==
    /\ io.pc = "export"
    /\ ~io.sol_file
    /\ io' = [io EXCEPT !.pc = "done"]
    /\ UNCHANGED <<inst, cw, pw, cq, drv>>

\* if check_result: the checker runs, and any answer but Ok is printed
ExportCheck ==
    /\ io.pc = "export"
    /\ io.sol_file
    /\ io.check_result
    /\ LET r == checker(inst, io.solution)
       IN  io' = [io EXCEPT !.pc = "write",
                            !.checker_result = r,
                            !.stdout = IF r.kind = "Ok" THEN @
                                       ELSE Append(@, "invalid solution")]
    /\ UNCHANGED <<inst, cw, pw, cq, drv>>

ExportSkipCheck ==
    /\ io.pc = "export"
    /\ io.sol_file
    /\ ~io.check_result
    /\ io' = [io EXCEPT !.pc = "write"]
    /\ UNCHANGED <<inst, cw, pw, cq, drv>>

\* instance.write_solution(filename, solution)
ExportWrite ==
    /\ io.pc = "write"
    /\ io' = [io EXCEPT !.pc = "done", !.file = <<io.solution>>]
    /\ UNCHANGED <<inst, cw, pw, cq, drv>>

NextExport ==
    \/ ExportNoFile
    \/ ExportCheck
    \/ ExportSkipCheck
    \/ ExportWrite

SpecExport == InitExport /\ [][NextExport]_vars

\* C16: the solution is verified by the checker before it is written and a
\* checker failure is fatal: when the check is asked for, the solution file
\* is only ever written with a solution that the checker answered Ok for,
\* never with an infeasible one.
C16_NoFileForInfeasible ==
    (io.pc \in {"export", "write", "done"} /\ io.check_result /\ io.file # <<>>)
        => /\ io.checker_result.kind = "Ok"
           /\ Feasible(inst, io.file[1])

\* ---------------------------------------------------------------------
\* cgshop.rs: CGSHOPSolution, the colour list of the solution file, and its
\* conversions from and to a list of classes.
\* ---------------------------------------------------------------------

CGSHOPSolution_new(num_colors, colors) ==
    [sol_type |-> "Solution_CGSHOP2022", num_colors |-> num_colors,
     colors |-> colors]

\* from_solution that leaves every vertex at the initial colour 0
from_solution_all_zero(sol) ==
    LET n == SumSeq([c \in 1..Len(sol) |-> Len(sol[c])])
    IN  CGSHOPSolution_new(Len(sol), [v \in 0..(n - 1) |-> 0])

\* colors starts as vec![0; n]; a vertex listed several times keeps the
\* index of the last class that lists it
from_solution(sol) ==
    LET n == SumSeq([c \in 1..Len(sol) |-> Len(sol[c])])
        holds(v) == {c \in 1..Len(sol) : v \in Range(sol[c])}
        last(v) == CHOOSE c \in holds(v) : \A d \in holds(v) : d <= c
    IN  CGSHOPSolution_new(Len(sol),
            [v \in 0..(n - 1) |-> IF holds(v) = {} THEN 0 ELSE last(v) - 1])

\* res[c] receives the indices i with colors[i] = c in increasing order
to_solution(s) ==
    [c \in 1..s.num_colors |->
        SetToSortedSeq({i \in DOMAIN s.colors : s.colors[i] = c - 1})]

\* the partitions of the vertices 0..n-1 into up to MaxClasses classes, the
\* vertices of a class in any order, n up to MaxEntries
InitConvert ==
    /\ \E n \in 1..MaxEntries :
          /\ inst = MkGraph(n, {})
          /\ \E flat \in {f \in [1..n -> 0..(n - 1)] : Range(f) = 0..(n - 1)} :
             \E k \in 1..MaxClasses : \E sol \in CutInto(flat, k) :
                io = [pc |-> "from_solution", solution |-> sol,
                      cgshop |-> CGSHOPSolution_new(0, <<>>), back |-> <<>>]
    /\ cw = Idle
    /\ pw = Idle
    /\ cq = Idle
    /\ drv = Idle

FromSolution ==
    /\ io.pc = "from_solution"
    /\ io' = [io EXCEPT !.pc = "to_solution",
                        !.cgshop = from_solution(io.solution)]
    /\ UNCHANGED <<inst, cw, pw, cq, drv>>

ToSolution ==
    /\ io.pc = "to_solution"
    /\ io' = [io EXCEPT !.pc = "converted", !.back = to_solution(io.cgshop)]
    /\ UNCHANGED <<inst, cw, pw, cq, drv>>

NextConvert == FromSolution \/ ToSolution

SpecConvert == InitConvert /\ [][NextConvert]_vars

\* the classes of a list as a bag of vertex sets
ClassBag(sol) ==
    LET sets == {Range(sol[c]) : c \in 1..Len(sol)}
    IN  [s \in sets |-> Cardinality({c \in 1..Len(sol) : Range(sol[c]) = s})]

\* C17: from_solution followed by to_solution gives back the same partition
\* of the vertices up to a permutation of the colour labels, and num_colors
\* is the number of classes of the partition.
C17_RoundTrip ==
    /\ io.pc = "to_solution" => io.cgshop.num_colors = Len(io.solution)
    /\ io.pc = "converted"
          => /\ io.cgshop.num_colors = Len(io.solution)
             /\ Len(io.back) = Len(io.solution)
             /\ ClassBag(io.back) = ClassBag(io.solution)
             /\ IsPartition(inst, io.back)

\* a partition with two classes, one of them listed in decreasing order,
\* after the round trip: the list that comes back differs from the one given
C17_Witness ==
    /\ io.pc = "converted"
    /\ Len(io.solution) = 2
    /\ \A c \in 1..2 : io.solution[c] # <<>>
    /\ io.back # io.solution

\* ---------------------------------------------------------------------
\* dimacs.rs: reading a DIMACS file. The file is given as its header
\* `p edge n m` and the list of its edge lines `e a b`, the vertices of a
\* line being two distinct numbers of 1..n.
\* ---------------------------------------------------------------------

MaxLines == 4

DimacsSizes == 2..3

EdgeLines(n) == {e \in (1..n) \X (1..n) : e[1] # e[2]}

\* the loop of read_from_file: each line pushes b-1 to the list of a-1 and
\* a-1 to the list of b-1
RECURSIVE read_edges(_, _, _)
read_edges(adj_list, lines, i) ==
    IF i > Len(lines)
    THEN adj_list
    ELSE LET a == lines[i][1]
             b == lines[i][2]
             one == [adj_list EXCEPT ![a - 1] = Append(@, b - 1)]
             two == [one EXCEPT ![b - 1] = Append(@, a - 1)]
         IN  read_edges(two, lines, i + 1)

\* read_from_file: (n, m, adj_list), or the panic of the failed assert!
read_from_file(n, m, lines) ==
    LET adj_list == read_edges([v \in 0..(n - 1) |-> <<>>], lines, 1)
        check_nb_edges == Len(lines)
    IN  IF check_nb_edges = m \/ 2 * check_nb_edges = m
        THEN [kind |-> "ok", n |-> n, m |-> m, adj_list |-> adj_list]
        ELSE [kind |-> "panic"]

\* DimacsInstance::new(adj_list) with build_edges and populate_adj_matrix
DimacsInstance_new(adj_list) ==
    LET n == Cardinality(DOMAIN adj_list)
        pairs == UNION {{<<i, k>> : k \in 1..Len(adj_list[i])} : i \in 0..(n - 1)}
        less == {p \in pairs : p[1] < adj_list[p[1]][p[2]]}
    IN  [n |-> n,
         m |-> SumSet(0..(n - 1), [v \in 0..(n - 1) |-> Len(adj_list[v])]) \div 2,
         edges |-> [k \in 1..Cardinality(less) |->
                      LET p == CHOOSE q \in less :
                                  Cardinality({r \in less : VecLess(r, q)}) = k - 1
                      IN  <<p[1], adj_list[p[1]][p[2]]>>],
         adj_list |-> adj_list,
         adj_matrix |-> [v \in 0..(n - 1) |-> Range(adj_list[v])]]

InitDimacs ==
    /\ inst = OneEdge
    /\ cw = Idle
    /\ pw = Idle
    /\ cq = Idle
    /\ drv = Idle
    /\ \E n \in DimacsSizes, m \in 0..(2 * MaxLines) :
       \E lines \in UNION {[1..len -> EdgeLines(n)] : len \in 0..MaxLines} :
          io = [pc |-> "from_file", n |-> n, m |-> m, lines |-> lines,
                read |-> [kind |-> "none"], graph |-> [kind |-> "none"]]

\* from_file, first half: read_from_file
ReadFromFile ==
    /\ io.pc = "from_file"
    /\ LET r == read_from_file(io.n, io.m, io.lines)
       IN  io' = [io EXCEPT !.read = r,
                            !.pc = IF r.kind = "ok" THEN "new" ELSE "panic"]
    /\ UNCHANGED <<inst, cw, pw, cq, drv>>

\* from_file, second half: Self::new(adj_list)
DimacsNew ==
    /\ io.pc = "new"
    /\ io' = [io EXCEPT !.pc = "loaded",
                        !.graph = DimacsInstance_new(io.read.adj_list)]
    /\ UNCHANGED <<inst, cw, pw, cq, drv>>

NextDimacs == ReadFromFile \/ DimacsNew

SpecDimacs == InitDimacs /\ [][NextDimacs]_vars

\* C18: a file whose header announces m edges is accepted when it has m or
\* 2m edge lines, and rejected with any other number of edge lines.
C18_EdgeCountTolerance ==
    (io.pc \in {"new", "loaded", "panic"} /\ io.read.kind # "none")
        => (io.read.kind = "ok"
               <=> (Len(io.lines) = io.m \/ Len(io.lines) = 2 * io.m))

\* C19: the graph loaded from a file has no self-loop, no vertex twice in a
\* neighbour list, and symmetric neighbour lists, also when the file lists
\* every edge in both directions (no line of the file is repeated).
C19_LoadedGraphSimple ==
    (io.pc = "loaded" /\ \A i, j \in 1..Len(io.lines) : io.lines[i] = io.lines[j] => i = j)
        => \A u \in 0..(io.graph.n - 1) :
              LET l == io.graph.adj_list[u]
              IN  /\ u \notin Range(l)
                  /\ \A i, j \in 1..Len(l) : l[i] = l[j] => i = j
                  /\ \A v \in Range(l) : u \in Range(io.graph.adj_list[v])

\* C19 without the duplicates: no self-loop and symmetric neighbour lists
C19_NoLoopSymmetric ==
    io.pc = "loaded"
        => \A u \in 0..(io.graph.n - 1) :
              LET l == io.graph.adj_list[u]
              IN  /\ u \notin Range(l)
                  /\ \A v \in Range(l) : u \in Range(io.graph.adj_list[v])

\* ---------------------------------------------------------------------
\* clique_conflict_weighting.rs: struct ConflictWeightingLocalSearch of the
\* clique search (names with the prefix cq_), run by dogs Greedy. Weight is
\* u32 here: the runs explored stay far from its largest value.
\* ---------------------------------------------------------------------

cq_get_weight(s, u, v) == IF u < v THEN s.weights[v][u] ELSE s.weights[u][v]

cq_increase_weight(s, u, v) ==
    IF u < v THEN [s EXCEPT !.weights[v][u] = @ + 1]
    ELSE [s EXCEPT !.weights[u][v] = @ + 1]

cq_initialize(g, sol) ==
    [weights |-> [i \in 0..(g.n - 1) |-> [j \in 0..(i - 1) |-> 1]],
     current_sol |-> sol,
     inside_clique |-> Range(sol),
     weight_adj_clique |->
        [v \in Vertices(g) |->
            Cardinality({i \in 1..Len(sol) :
                            sol[i] # v /\ ~are_adjacent(g, sol[i], v)})],
     total_weight |-> 0,
     tabu |-> CliqueSwapTenure_new(g.n),
     calls |-> 0]

\* add_vertex(v): the loop over the vertices w # v that are not adjacent to v
RECURSIVE cq_add_loop(_, _, _, _)
cq_add_loop(g, s, v, w) ==
    IF w >= g.n THEN s
    ELSE IF w # v /\ ~are_adjacent(g, v, w)
    THEN LET weight == cq_get_weight(s, v, w)
             s1 == IF w \in s.inside_clique
                   THEN [s EXCEPT !.total_weight = @ + weight]
                   ELSE s
         IN  cq_add_loop(g, [s1 EXCEPT !.weight_adj_clique[w] = @ + weight], v, w + 1)
    ELSE cq_add_loop(g, s, v, w + 1)

\* add_vertex without the update of total_weight
cq_add_vertex_no_total(g, s, v) ==
    [cq_add_loop(g, [s EXCEPT !.inside_clique = @ \cup {v}], v, 0)
        EXCEPT !.total_weight = s.total_weight]

cq_add_vertex(g, s, v) ==
    cq_add_loop(g, [s EXCEPT !.inside_clique = @ \cup {v}], v, 0)

\* remove_vertex(v): the loop over the vertices w # v that are not adjacent to v
RECURSIVE cq_remove_loop(_, _, _, _)
cq_remove_loop(g, s, v, w) ==
    IF w >= g.n THEN s
    ELSE IF w # v /\ ~are_adjacent(g, v, w)
    THEN LET weight == cq_get_weight(s, v, w)
             s1 == [s EXCEPT !.weight_adj_clique[w] = @ - weight]
             s2 == IF w \in s.inside_clique
                   THEN [cq_increase_weight(
                            [s1 EXCEPT !.total_weight = @ - weight], v, w)
                         EXCEPT !.weight_adj_clique[v] = @ + 1]
                   ELSE s1
         IN  cq_remove_loop(g, s2, v, w + 1)
    ELSE cq_remove_loop(g, s, v, w + 1)

\* remove_vertex without `weight_adj_clique[v] += 1`
cq_remove_vertex_no_bump(g, s, v) ==
    [cq_remove_loop(g, [s EXCEPT !.inside_clique = @ \ {v}], v, 0)
        EXCEPT !.weight_adj_clique[v] = s.weight_adj_clique[v]]

\* remove_vertex that leaves weight_adj_clique of the vertices outside the
\* candidate as it was
cq_remove_vertex_stale_outside(g, s, v) ==
    LET t == cq_remove_loop(g, [s EXCEPT !.inside_clique = @ \ {v}], v, 0)
    IN  [t EXCEPT !.weight_adj_clique =
            [w \in Vertices(g) |->
                IF w \in s.inside_clique THEN t.weight_adj_clique[w]
                ELSE s.weight_adj_clique[w]]]

cq_remove_vertex(g, s, v) ==
    cq_remove_loop(g, [s EXCEPT !.inside_clique = @ \ {v}], v, 0)

\* max_by_key and max_by give the last of the largest elements, min_by the
\* first of the smallest
LastMax(S, key) ==
    CHOOSE x \in S : \A y \in S : key[y] < key[x] \/ (key[y] = key[x] /\ y <= x)

FirstMin(S, key) ==
    CHOOSE x \in S : \A y \in S : key[x] < key[y] \/ (key[y] = key[x] /\ x <= y)

\* the loop of insert_new_vertex; the unwrap() panics when every vertex is
\* inside the candidate
RECURSIVE cq_insert_loop(_, _)
cq_insert_loop(g, s) ==
    LET outside == Vertices(g) \ s.inside_clique
    IN  IF outside = {} THEN [state |-> s, panic |-> TRUE]
        ELSE LET v == LastMax(outside, [e \in Vertices(g) |-> degree(g, e)])
                 s1 == cq_add_vertex(g, s, v)
             IN  IF s1.total_weight = 0
                 THEN cq_insert_loop(g, [s1 EXCEPT !.current_sol = Append(@, v)])
                 ELSE [state |-> s1, panic |-> FALSE]

cq_insert_new_vertex(g, s) ==
    IF s.total_weight # 0 THEN [state |-> s, panic |-> TRUE]
    ELSE cq_insert_loop(g, [s EXCEPT !.current_sol = SetToSortedSeq(s.inside_clique)])

cq_commit(g, s, node) ==
    cq_add_vertex(g, cq_remove_vertex(g, s, node.vertex_out), node.vertex_in)

cq_initial == [vertex_in |-> 0, vertex_out |-> 0, total_weight |-> 0]

cq_goal(n) == n.total_weight = 0

\* neighbors(node), the selection of the swap after the commit and the
\* insertion; the draw of the tabu test plays no part as no vertex is ever
\* inserted in the tabu list
cq_select(g, s) ==
    LET free == {v \in Vertices(g) \ s.inside_clique :
                    ~CliqueSwap_contains(s.tabu, v, v, 0)}
    IN  IF s.inside_clique = {} \/ free = {}
        THEN [panic |-> TRUE, nodes |-> <<>>]
        ELSE LET u == LastMax(s.inside_clique, s.weight_adj_clique)
                 v == FirstMin(free, s.weight_adj_clique)
                 cost_sync == IF ~are_adjacent(g, u, v)
                              THEN cq_get_weight(s, u, v) ELSE 0
             IN  [panic |-> FALSE,
                  nodes |-> <<[vertex_in |-> v, vertex_out |-> u,
                               total_weight |->
                                  s.total_weight + s.weight_adj_clique[v]
                                  - s.weight_adj_clique[u] - cost_sync]>>]

\* neighbors(node): [state, panic, nodes]
cq_neighbors(g, s, node) ==
    LET s1 == IF node.vertex_in # node.vertex_out THEN cq_commit(g, s, node) ELSE s
    IN  IF node.total_weight # s1.total_weight
        THEN [state |-> s1, panic |-> TRUE, nodes |-> <<>>]
        ELSE LET ins == IF cq_goal(node) THEN cq_insert_new_vertex(g, s1)
                        ELSE [state |-> s1, panic |-> FALSE]
                 sel == cq_select(g, ins.state)
             IN  IF ins.panic
                 THEN [state |-> ins.state, panic |-> TRUE, nodes |-> <<>>]
                 ELSE [state |-> ins.state, panic |-> sel.panic, nodes |-> sel.nodes]

cq_solution(s) == s.current_sol

IsClique(g, S) == \A u, v \in S : u # v => are_adjacent(g, u, v)

\* the seed cliques: the non-empty cliques of the graph, in increasing order
CliqueSeeds(g) ==
    {SetToSortedSeq(S) : S \in {T \in SUBSET Vertices(g) : T # {} /\ IsClique(g, T)}}

CliqueGraphs ==
    Graphs \cup { MkGraph(5, {{0, 1}, {1, 2}, {0, 2}, {2, 3}, {3, 4}, {2, 4}}),
                  MkGraph(5, {{0, 1}, {0, 2}, {1, 2}, {1, 3}, {2, 3}, {3, 4}}) }

InitClique ==
    \E g \in CliqueGraphs : \E sol \in CliqueSeeds(g) :
        /\ inst = g
        /\ cw = Idle
        /\ pw = Idle
        /\ cq = cq_initialize(g, sol)
        /\ io = Idle
        /\ drv = DriverInit(sol, TRUE, cq_initial)

\* one round of Greedy: neighbors(n), the node returned becomes n and is
\* recorded as best when it is a goal
CqNeighbors ==
    /\ drv.pc = "outer"
    /\ ~drv.stop
    /\ cq.calls < MaxIter
    /\ LET res == cq_neighbors(inst, cq, drv.node)
       IN  /\ cq' = [res.state EXCEPT !.calls = @ + 1]
           /\ drv' = IF res.panic
                     THEN [drv EXCEPT !.pc = "panic"]
                     ELSE [drv EXCEPT !.node = res.nodes[1],
                                      !.has_best = @ \/ cq_goal(res.nodes[1])]
    /\ UNCHANGED <<inst, cw, pw, io>>

\* clique_conflict_weighting after ts.run(stop): the seed if the search
\* recorded no goal node, otherwise solution()
CqReturn ==
    /\ drv.pc = "outer"
    /\ drv.stop
    /\ drv' = [drv EXCEPT !.pc = "done",
                          !.returned = IF drv.has_best THEN cq_solution(cq)
                                       ELSE drv.seed]
    /\ UNCHANGED <<inst, cw, pw, cq, io>>

NextClique ==
    \/ Stop
    \/ CqNeighbors
    \/ CqReturn

SpecClique == InitClique /\ [][NextClique]_vars

\* the size of the largest clique of the graph
Omega(g) ==
    LET sizes == {Cardinality(T) : T \in {S \in SUBSET Vertices(g) : IsClique(g, S)}}
    IN  CHOOSE k \in sizes : \A j \in sizes : j <= k

\* C20: a run of the clique search started from a seed clique returns a set
\* of pairwise adjacent vertices, so of at most omega vertices, that has no
\* fewer vertices than the seed; the recorded clique has these properties
\* all along the run.
C20_ReturnsClique ==
    cq # Idle =>
        /\ IsClique(inst, Range(cq.current_sol))
        /\ Cardinality(Range(cq.current_sol)) = Len(cq.current_sol)
        /\ Len(cq.current_sol) >= Len(drv.seed)
        /\ drv.pc = "done" =>
              /\ IsClique(inst, Range(drv.returned))
              /\ Cardinality(Range(drv.returned)) = Len(drv.returned)
              /\ Len(drv.returned) <= Omega(inst)
              /\ Len(drv.returned) >= Len(drv.seed)

\* a run that returned, after at least one swap, a clique larger than its seed
C20_Witness ==
    /\ cq # Idle
    /\ drv.pc = "done"
    /\ drv.has_best
    /\ Len(drv.returned) > Len(drv.seed)
    /\ \E u \in Vertices(inst) : \E v \in 0..(u - 1) : cq.weights[u][v] > 1

\* ---------------------------------------------------------------------
\* The primitives of the clique search applied in any order: add_vertex of
\* a vertex outside the candidate, remove_vertex of a vertex inside it, and
\* the swap of commit.
\* ---------------------------------------------------------------------

InitCliqueMoves ==
    \E g \in CliqueGraphs : \E sol \in CliqueSeeds(g) :
        /\ inst = g
        /\ cw = Idle
        /\ pw = Idle
        /\ cq = cq_initialize(g, sol)
        /\ io = Idle
        /\ drv = Idle

CqAdd ==
    /\ cq.calls < MaxIter
    /\ \E v \in Vertices(inst) \ cq.inside_clique :
          cq' = [cq_add_vertex(inst, cq, v) EXCEPT !.calls = @ + 1]
    /\ UNCHANGED <<inst, cw, pw, io, drv>>

CqRemove ==
    /\ cq.calls < MaxIter
    /\ \E v \in cq.inside_clique :
          cq' = [cq_remove_vertex(inst, cq, v) EXCEPT !.calls = @ + 1]
    /\ UNCHANGED <<inst, cw, pw, io, drv>>

CqSwap ==
    /\ cq.calls < MaxIter
    /\ \E u \in cq.inside_clique, v \in Vertices(inst) \ cq.inside_clique :
          cq' = [cq_commit(inst, cq, [vertex_in |-> v, vertex_out |-> u,
                                      total_weight |-> 0])
                    EXCEPT !.calls = @ + 1]
    /\ UNCHANGED <<inst, cw, pw, io, drv>>

NextCliqueMoves == CqAdd \/ CqRemove \/ CqSwap

SpecCliqueMoves == InitCliqueMoves /\ [][NextCliqueMoves]_vars

\* the pairs of vertices of the candidate that are not adjacent
MissingPairs(g, s) ==
    {p \in s.inside_clique \X s.inside_clique :
        p[1] < p[2] /\ ~are_adjacent(g, p[1], p[2])}

\* C21: after every add, remove and swap of the clique search,
\* weight_adj_clique[v] is the sum of the weights of the pairs {u, v} with u
\* in the candidate, u # v, u not adjacent to v; total_weight is the sum of
\* the weights of the non-adjacent pairs inside the candidate; and
\* total_weight is 0 exactly when the candidate is a clique.
C21_MissingWeights ==
    cq # Idle =>
        /\ \A v \in Vertices(inst) :
              LET far == {u \in cq.inside_clique :
                             u # v /\ ~are_adjacent(inst, u, v)}
              IN  cq.weight_adj_clique[v]
                     = SumSet(far, [u \in far |-> cq_get_weight(cq, u, v)])
        /\ LET mp == MissingPairs(inst, cq)
           IN  cq.total_weight
                  = SumSet(mp, [p \in mp |-> cq_get_weight(cq, p[1], p[2])])
        /\ (cq.total_weight = 0 <=> IsClique(inst, cq.inside_clique))

\* a candidate with a non-adjacent pair whose weight has grown, after a
\* vertex was removed and put back
C21_Witness ==
    /\ cq # Idle
    /\ cq.calls >= 3
    /\ cq.total_weight > 1
    /\ \E p \in MissingPairs(inst, cq) : cq_get_weight(cq, p[1], p[2]) > 1

\* ---------------------------------------------------------------------
\* clique_partial_weighting.rs: struct PartialWeightingLocalSearch of the
\* clique search (names with the prefix qp_), run by dogs Greedy. Its
\* CliqueTenure is CliqueTenure::new(n/5, 0.0, n): the threshold of
\* contains is the draw alone.
\* ---------------------------------------------------------------------

qp_initialize(g, sol) ==
    LET far(u) == {i \in 1..Len(sol) : sol[i] # u /\ ~are_adjacent(g, u, sol[i])}
    IN  [weights |-> [v \in Vertices(g) |-> 1],
         current_sol |-> sol,
         inside_clique |-> Range(sol),
         total_weight |-> Len(sol),
         weight_cost_inserting |-> [u \in Vertices(g) |-> Cardinality(far(u))],
         nb_non_adj_clique |-> [u \in Vertices(g) |-> Cardinality(far(u))],
         tabu |-> CliqueSwapTenure_new(g.n),
         nb_iter |-> 0,
         configuration |-> Vertices(g),
         aspiration |-> Len(sol)]

qp_remove_vertex(g, s, v) ==
    LET far(w) == w # v /\ ~are_adjacent(g, v, w)
    IN  [s EXCEPT
           !.inside_clique = @ \ {v},
           !.total_weight = @ - s.weights[v],
           !.weight_cost_inserting =
               [w \in Vertices(g) |-> IF far(w) THEN @[w] - s.weights[v] ELSE @[w]],
           !.nb_non_adj_clique =
               [w \in Vertices(g) |-> IF far(w) THEN @[w] - 1 ELSE @[w]]]

\* add_vertex that keeps the members of the clique not adjacent to u
qp_add_vertex_keeps_all(g, s, u) ==
    LET far(v) == v # u /\ ~are_adjacent(g, u, v)
        s2 == [s EXCEPT
                 !.configuration = Range(neighbors(g, u)),
                 !.inside_clique = @ \cup {u},
                 !.total_weight = @ + s.weights[u],
                 !.weight_cost_inserting =
                     [v \in Vertices(g) |-> IF far(v) THEN @[v] + s.weights[u] ELSE @[v]],
                 !.nb_non_adj_clique =
                     [v \in Vertices(g) |-> IF far(v) THEN @[v] + 1 ELSE @[v]],
                 !.nb_iter = @ + 1]
    IN  IF Cardinality(s2.inside_clique) > Len(s2.current_sol)
        THEN [s2 EXCEPT !.current_sol = SetToSortedSeq(s2.inside_clique)]
        ELSE s2

qp_add_vertex(g, s, u) ==
    LET clique_vec == SetToSortedSeq(s.inside_clique)
        RECURSIVE drop(_, _)
        drop(t, i) ==
            IF i > Len(clique_vec) THEN t
            ELSE IF ~are_adjacent(g, u, clique_vec[i])
            THEN drop(qp_remove_vertex(g, t, clique_vec[i]), i + 1)
            ELSE drop(t, i + 1)
        s1 == drop([s EXCEPT !.configuration = Range(neighbors(g, u))], 1)
        far(v) == v # u /\ ~are_adjacent(g, u, v)
        s2 == [s1 EXCEPT
                 !.inside_clique = @ \cup {u},
                 !.total_weight = @ + s1.weights[u],
                 !.weight_cost_inserting =
                     [v \in Vertices(g) |-> IF far(v) THEN @[v] + s1.weights[u] ELSE @[v]],
                 !.nb_non_adj_clique =
                     [v \in Vertices(g) |-> IF far(v) THEN @[v] + 1 ELSE @[v]],
                 !.nb_iter = @ + 1]
    IN  IF Cardinality(s2.inside_clique) > Len(s2.current_sol)
        THEN [s2 EXCEPT !.current_sol = SetToSortedSeq(s2.inside_clique)]
        ELSE s2

qp_commit(g, s, node) ==
    IF node.vertex_in = None THEN s
    ELSE LET s1 == qp_add_vertex(g, s, node.vertex_in)
         IN  [s1 EXCEPT !.tabu = CliqueSwap_increase_iter(
                                    CliqueSwap_insert(@, 0, node.vertex_in))]

\* contains(n, d) with lambda = 0; rand_l is the draw from 0..=l
qp_tabu_contains(t, d, rand_l) ==
    /\ t.decisions[d] # None
    /\ (rand_l > t.nb_iter \/ t.decisions[d] >= t.nb_iter - rand_l)

\* neighbors(node) after the commit: the scan of configuration in increasing
\* order; draws[u] is the draw of the tabu test of u
qp_scan(g, s, draws) ==
    LET conf == SetToSortedSeq(s.configuration)
        RECURSIVE scan(_, _)
        scan(i, res) ==
            IF i > Len(conf) THEN res
            ELSE LET u == conf[i]
                     u_node == [vertex_in |-> u,
                                total_weight |-> s.total_weight + s.weights[u]
                                                 - s.weight_cost_inserting[u]]
                 IN  IF /\ u \notin s.inside_clique
                        /\ degree(g, u) >= Len(s.current_sol)
                        /\ (res = <<>> \/ ~qp_tabu_contains(s.tabu, u, draws[u]))
                     THEN IF res = <<>> THEN scan(i + 1, <<u_node>>)
                          ELSE IF u_node.total_weight > res[1].total_weight
                          THEN scan(i + 1, <<u_node>>)
                          ELSE IF res[1].total_weight = u_node.total_weight
                          THEN scan(i + 1, Append(res, u_node))
                          ELSE scan(i + 1, res)
                     ELSE scan(i + 1, res)
    IN  scan(1, <<>>)

\* clique_vec_to_vecvec(sol, n) of util.rs
clique_vec_to_vecvec(sol, n) ==
    <<sol, SetToSortedSeq((0..(n - 1)) \ Range(sol))>>

InitCliquePW ==
    \E g \in CliqueGraphs : \E sol \in CliqueSeeds(g) :
        /\ inst = g
        /\ cw = Idle
        /\ pw = Idle
        /\ cq = qp_initialize(g, sol)
        /\ io = Idle
        /\ drv = DriverInit(clique_vec_to_vecvec(sol, g.n), TRUE,
                            [vertex_in |-> None, total_weight |-> Len(sol)])

\* one round of Greedy: neighbors(n); a node of largest total_weight becomes
\* n and is recorded (every node is a goal); the run ends on an empty list
QpNeighbors ==
    /\ drv.pc = "outer"
    /\ ~drv.stop
    /\ cq.nb_iter < MaxIter
    /\ LET s1 == qp_commit(inst, cq, drv.node)
       IN  /\ cq' = s1
           /\ \E draws \in [Vertices(inst) -> 0..(inst.n \div 5)] :
                 LET res == qp_scan(inst, s1, draws)
                 IN  IF res = <<>>
                     THEN drv' = [drv EXCEPT !.stop = TRUE]
                     ELSE \E i \in 1..Len(res) :
                             drv' = [drv EXCEPT !.node = res[i], !.has_best = TRUE]
    /\ UNCHANGED <<inst, cw, pw, io>>

\* clique_partial_weighting after ts.run(stop)
QpReturn ==
    /\ drv.pc = "outer"
    /\ drv.stop
    /\ drv' = [drv EXCEPT !.pc = "done",
                          !.returned = IF drv.has_best
                                       THEN clique_vec_to_vecvec(cq.current_sol, inst.n)
                                       ELSE drv.seed]
    /\ UNCHANGED <<inst, cw, pw, cq, io>>

NextCliquePW ==
    \/ Stop
    \/ QpNeighbors
    \/ QpReturn

SpecCliquePW == InitCliquePW /\ [][NextCliquePW]_vars

\* C22: in the clique search with vertex weights the recorded best clique is
\* always a set of pairwise adjacent vertices, its size never decreases, and
\* it is replaced, by the candidate, exactly in the steps after which the
\* candidate has more vertices than the best recorded before the step.
C22_BestCliqueGrows ==
    /\ [](/\ IsClique(inst, Range(cq.current_sol))
          /\ Cardinality(Range(cq.current_sol)) = Len(cq.current_sol))
    /\ [][/\ Len(cq'.current_sol) >= Len(cq.current_sol)
          /\ cq'.current_sol # cq.current_sol
                <=> Cardinality(cq'.inside_clique) > Len(cq.current_sol)
          /\ cq'.current_sol # cq.current_sol
                => cq'.current_sol = SetToSortedSeq(cq'.inside_clique)]_vars

\* a best clique larger than the seed, recorded after the candidate had lost
\* a member to a vertex not adjacent to it
C22_Witness ==
    /\ drv.pc = "outer"
    /\ Len(cq.current_sol) > Len(drv.seed[1])
    /\ \E v \in Range(drv.seed[1]) : v \notin cq.inside_clique

ClassOf(s, c) == {v \in DOMAIN s.colors : s.colors[v] = c}

\* the sum of weights_neigh_colors[v][c2] over the vertices v of colour c1,
\* not clamped
MergeCostOf(s, c1, c2) ==
    SumSet(ClassOf(s, c1), [v \in ClassOf(s, c1) |-> s.weights_neigh_colors[v][c2]])

\* the step of merge_colors that selects the pair
MergeSelected ==
    cw # Idle /\ drv.pc = "select" /\ drv'.pc = "move"

\* the pair merged has the least cost of all ordered pairs of distinct
\* non-empty classes, and the vertices to move are the class c_min
MergePairHasLeastCost ==
    [][MergeSelected =>
          /\ Range(drv'.todo) = ClassOf(cw, drv'.c_min)
          /\ drv'.todo # <<>>
          /\ ClassOf(cw, drv'.c_max) # {}
          /\ drv'.c_min # drv'.c_max
          /\ \A a, b \in 0..(cw.nb_colors - 1) :
                (a # b /\ ClassOf(cw, a) # {} /\ ClassOf(cw, b) # {})
                   => MergeCostOf(cw, drv'.c_min, drv'.c_max) <= MergeCostOf(cw, a, b)]_vars

\* the class whose vertices are moved has no more vertices than the class
\* that receives them
MergeMovesSmallerClass ==
    [][MergeSelected =>
          Cardinality(ClassOf(cw, drv'.c_min)) <= Cardinality(ClassOf(cw, drv'.c_max))]_vars

\* every move of the merge gives c_max to a vertex of c_min and leaves the
\* other colours alone, and at the end of the moves c_min is empty
MergeEmptiesClass ==
    /\ [][(cw # Idle /\ drv.pc = "move" /\ drv'.todo # drv.todo) =>
             /\ cw.colors[Head(drv.todo)] = drv.c_min
             /\ cw'.colors = [cw.colors EXCEPT ![Head(drv.todo)] = drv.c_max]]_vars
    /\ []((cw # Idle /\ drv.pc = "move" /\ drv.todo = <<>>) =>
             /\ ClassOf(cw, drv.c_min) = {}
             /\ cw.colors_vertex_number[drv.c_min] = 0)

\* C24: in the merge phase of colouring CWLS the pair of classes merged has
\* the least merge cost of all ordered pairs of distinct non-empty classes,
\* the class whose vertices are moved (c_min) has no more vertices than the
\* class that receives them (c_max), and the moves give the colour c_max to
\* every vertex of c_min, which leaves c_min empty.
C24_MergeSmallerIntoLarger ==
    /\ MergePairHasLeastCost
    /\ MergeMovesSmallerClass
    /\ MergeEmptiesClass

(***************************************************************************)
(* Longer repair phases of colouring CWLS: the driver                      *)
(* conflict_weighting_local_search on one graph of five vertices, with     *)
(* repair phases of up to MaxRepairIter commits.                           *)
(***************************************************************************)
MaxRepairIter == 5

\* the cycle 0-1-2-3-4 with the chord {0, 2}
RepairGraphs == {MkGraph(5, {{0, 1}, {1, 2}, {2, 3}, {3, 4}, {0, 4}, {0, 2}})}

InitRepair ==
    \E g \in RepairGraphs : \E sol \in Seeds(g) :
        /\ inst = g
        /\ cw = initialize(g, sol)
        /\ pw = Idle
        /\ cq = Idle
        /\ io = Idle
        /\ drv = DriverInit(sol, FALSE, initial(initialize(g, sol)))

\* one iteration of `while !state.is_goal() && !stop.is_finished()`
RepairStepLong ==
    /\ drv.pc = "repair"
    /\ ~is_goal(cw)
    /\ ~drv.stop
    /\ cw.nb_iter < MaxRepairIter
    /\ \E r \in 0..(TabuL - 1) :
          LET fb == find_best_move(cw)
          IN /\ cw' = commit(inst, fb.state, fb.node, r)
             /\ drv' = [drv EXCEPT !.fallback =
                           IF fb.node = PlaceholderNode THEN @ + 1 ELSE @]
    /\ UNCHANGED <<inst, pw, cq, io>>

NextRepair ==
    \/ Stop
    \/ EnterPhase
    \/ MergeSelect
    \/ MergeMove
    \/ MergeCheck
    \/ RepairStepLong
    \/ RepairExit
    \/ Return

SpecRepair == InitRepair /\ [][NextRepair]_vars

\* total_weight after the move of u to colour c, before the weights grow
MovePenalties(s, u, c) ==
    s.total_weight + s.weights_neigh_colors[u][c] - s.weights_neigh_colors[u][s.colors[u]]

\* the number of conflicting edges after the move of u to colour c
MoveConflicts(g, s, u, c) ==
    s.nb_conflicting_edges
      - Cardinality({w \in Vertices(g) : are_adjacent(g, u, w) /\ s.colors[w] = s.colors[u]})
      + Cardinality({w \in Vertices(g) : are_adjacent(g, u, w) /\ s.colors[w] = c})

\* is the move of u to colour c in the tabu list
MoveIsTabu(s, u, c) ==
    TabuCol_contains(s.tabu, [vertex |-> u, previous_color |-> s.colors[u],
                              next_color |-> c,
                              total_penalties |-> MovePenalties(s, u, c),
                              nb_conflicts |-> s.nb_conflicting_edges])

\* the moves of a vertex in conflict to another colour in use
RepairMoves(s) ==
    {m \in (DOMAIN s.colors) \X (0..(s.nb_colors - 1)) :
        /\ s.vertex_nb_conflicts[m[1]] > 0
        /\ m[2] # s.colors[m[1]]
        /\ s.colors_vertex_number[m[2]] > 0}

\* a step of the repair loop that commits a node
RepairCommits ==
    cw # Idle /\ drv.pc = "repair" /\ cw'.nb_iter # cw.nb_iter

\* does the step apply a move of the set E that has the least total_weight
\* after the move of all moves of E
AppliesBestOf(E) ==
    \E m \in E :
       /\ cw'.colors = [cw.colors EXCEPT ![m[1]] = m[2]]
       /\ \A m2 \in E : MovePenalties(cw, m[1], m[2]) <= MovePenalties(cw, m2[1], m2[2])

\* C25: a repair step of colouring CWLS applies a move (v, c) of least
\* total weight after the move, among the moves of a vertex in conflict to
\* another colour in use that are not tabu or that bring the number of
\* conflicting edges below the aspiration threshold.
C25_BestEligibleMove ==
    [][LET E == {m \in RepairMoves(cw) :
                    \/ ~MoveIsTabu(cw, m[1], m[2])
                    \/ MoveConflicts(inst, cw, m[1], m[2]) < cw.aspiration_criterion}
       IN  (RepairCommits /\ E # {}) => AppliesBestOf(E)]_vars

\* the same with the test of find_best_move: a tabu move is taken only while
\* the current number of conflicting edges is below the threshold
C25_BestByCurrentCount ==
    [][LET E == {m \in RepairMoves(cw) :
                    \/ ~MoveIsTabu(cw, m[1], m[2])
                    \/ cw.nb_conflicting_edges < cw.aspiration_criterion}
       IN  (RepairCommits /\ E # {}) => AppliesBestOf(E)]_vars

\* inside a repair phase the threshold follows the least number of
\* conflicting edges
AspirationFollowsMinimum ==
    [][(cw # Idle /\ drv.pc = "repair" /\ drv'.pc = "repair") =>
          cw'.aspiration_criterion =
              Min(cw.aspiration_criterion, cw'.nb_conflicting_edges)]_vars

\* a repair phase starts with the threshold at the number of conflicting
\* edges of its first state
AspirationRestartsWithPhase ==
    [][(cw # Idle /\ drv.pc # "repair" /\ drv'.pc = "repair") =>
          cw'.aspiration_criterion = cw'.nb_conflicting_edges]_vars

\* C26: in colouring CWLS the aspiration threshold is, in every state of a
\* repair phase, the least number of conflicting edges of the states of
\* that phase so far: it is the number of conflicting edges of the first
\* state of the phase, whatever earlier phases have seen, and after every
\* step of the phase the smaller of its former value and the new number.
C26_AspirationOfPhase ==
    /\ AspirationRestartsWithPhase
    /\ AspirationFollowsMinimum

(***************************************************************************)
(* The repair step of colouring CWLS statement by statement:               *)
(* find_best_move, then in commit the two calls on the tabu list with      *)
(* `nb_iter += 1`, then change_vertex_color.                               *)
(*   drv.pc   "tabu" (a node is decided, commit has not started),          *)
(*            "change" (commit is before its call of change_vertex_color)  *)
(***************************************************************************)
\* commit(node) without `self.tabu.insert(&node, node.clone())`
commit_mark_no_insert(s, node, r) ==
    LET s2 == [s EXCEPT !.tabu = TabuCol_increment_iter(@)]
    IN  [s2 EXCEPT !.nb_iter = @ + 1]

\* commit(node) up to its call of change_vertex_color
commit_mark(s, node, r) ==
    LET s1 == [s EXCEPT !.tabu = TabuCol_insert(@, node, node, r)]
        s2 == [s1 EXCEPT !.tabu = TabuCol_increment_iter(@)]
    IN  [s2 EXCEPT !.nb_iter = @ + 1]

\* `let node = state.find_best_move();`
RepairDecide ==
    /\ drv.pc = "repair"
    /\ ~is_goal(cw)
    /\ ~drv.stop
    /\ cw.nb_iter < MaxIter
    /\ LET fb == find_best_move(cw)
       IN  /\ cw' = fb.state
           /\ drv' = [drv EXCEPT !.pc = "tabu", !.node = fb.node,
                         !.fallback = IF fb.node = PlaceholderNode THEN @ + 1 ELSE @]
    /\ UNCHANGED <<inst, pw, cq, io>>

\* commit: `tabu.insert(..); tabu.increment_iter(); self.nb_iter += 1;`
CommitMark ==
    /\ drv.pc = "tabu"
    /\ \E r \in 0..(TabuL - 1) : cw' = commit_mark(cw, drv.node, r)
    /\ drv' = [drv EXCEPT !.pc = "change"]
    /\ UNCHANGED <<inst, pw, cq, io>>

\* commit: `self.change_vertex_color(node.vertex, node.next_color);`
CommitChange ==
    /\ drv.pc = "change"
    /\ cw' = change_vertex_color(inst, cw, drv.node.vertex, drv.node.next_color)
    /\ drv' = [drv EXCEPT !.pc = "repair"]
    /\ UNCHANGED <<inst, pw, cq, io>>

NextCommit ==
    \/ Stop
    \/ EnterPhase
    \/ MergeSelect
    \/ MergeMove
    \/ MergeCheck
    \/ RepairDecide
    \/ CommitMark
    \/ CommitChange
    \/ RepairExit
    \/ Return

SpecCommit == InitCWLS /\ [][NextCommit]_vars

\* the decided move is marked in the tabu list: the entry of (vertex,
\* previous colour) is the iteration that was current at the insertion
NodeMarked ==
    cw.tabu.decisions[drv.node.vertex][drv.node.previous_color] = cw.tabu.nb_iter - 1

Conflicting(s) == {v \in DOMAIN s.colors : s.vertex_nb_conflicts[v] > 0}

\* C28: in colouring CWLS every vertex with a conflict is in
\* conflicting_vertices in every state, so after every change-colour
\* primitive; a vertex without conflict can stay in it until the next scan
\* of the move selection, after which conflicting_vertices holds exactly the
\* vertices with a conflict, each once, and the node decided is a best one
\* over the moves of all of them.
C28_ConflictSetCoversConflicts ==
    /\ [](cw # Idle =>
             /\ Conflicting(cw) \subseteq Range(cw.conflicting_vertices)
             /\ Cardinality(Range(cw.conflicting_vertices)) = Len(cw.conflicting_vertices))
    /\ [](cw # Idle /\ drv.pc = "tabu" =>
             Range(cw.conflicting_vertices) = Conflicting(cw))
    /\ [][(cw # Idle /\ drv.pc = "repair" /\ drv'.pc = "tabu") =>
             LET E == {m \in RepairMoves(cw) :
                          \/ ~MoveIsTabu(cw, m[1], m[2])
                          \/ cw.nb_conflicting_edges < cw.aspiration_criterion}
             IN  /\ cw' = [cw EXCEPT !.conflicting_vertices = cw'.conflicting_vertices]
                 /\ E # {} =>
                       /\ <<drv'.node.vertex, drv'.node.next_color>> \in E
                       /\ \A m \in E : drv'.node.total_penalties
                                          <= MovePenalties(cw, m[1], m[2])]_vars

\* a scan has removed a vertex: one that a commit moved, which had a
\* conflict then, has none now and is not in conflicting_vertices, while
\* other vertices have conflicts
C28_Witness ==
    /\ cw # Idle
    /\ drv.pc = "tabu"
    /\ drv.fallback = 0
    /\ Conflicting(cw) # {}
    /\ \E v \in Vertices(inst) :
          /\ \E c \in DOMAIN cw.tabu.decisions[v] : cw.tabu.decisions[v][c] >= 0
          /\ v \notin Conflicting(cw)
          /\ v \notin Range(cw.conflicting_vertices)

\* the sum of the weights of the neighbours of v that have colour c
NeighbourWeight(g, s, v, c) ==
    LET nb == {w \in Vertices(g) : are_adjacent(g, v, w) /\ s.colors[w] = c}
    IN  SumSet(nb, [w \in nb |-> s.weights[w]])

\* C29: in colouring PWLS color_vertex(u, c) adds 1 to the weight of u
\* before it places u, so that the neighbours of u are charged the new
\* weight and total_weight loses the former one; and in every state, so
\* after the primitive with its uncolouring of the neighbours of u in class
\* c, cost_coloring[v][c'] is the sum of the weights of the neighbours of v
\* that have colour c', for all v and c'.
C29_CostColoring ==
    /\ [](pw # Idle =>
             \A v \in Vertices(inst) : \A c \in DOMAIN pw.cost_coloring[v] :
                 pw.cost_coloring[v][c] = NeighbourWeight(inst, pw, v, c))
    /\ [][(pw # Idle /\ drv.pc = "outer" /\ drv'.pc = "uncolor") =>
             LET u == drv.node.vertex
                 c == drv.node.color
             IN  /\ pw.colors[u] = None
                 /\ pw'.colors[u] = c
                 /\ pw'.weights[u] = pw.weights[u] + 1
                 /\ pw'.total_weight = pw.total_weight - pw.weights[u]
                 /\ \A v \in Vertices(inst) : are_adjacent(inst, u, v) =>
                       pw'.cost_coloring[v][c] = pw.cost_coloring[v][c] + pw'.weights[u]]_vars

\* color_vertex is over: u has the colour c with a weight of 2 or more, and a
\* neighbour of u without colour is charged that weight for c
C29_Witness ==
    /\ pw # Idle
    /\ drv.pc = "check"
    /\ drv.node.vertex # None
    /\ pw.colors[drv.node.vertex] = drv.node.color
    /\ pw.weights[drv.node.vertex] >= 2
    /\ \E v \in Uncolored(inst, pw) :
          /\ are_adjacent(inst, drv.node.vertex, v)
          /\ pw.cost_coloring[v][drv.node.color] >= 2

\* the score of colouring u with c: total_weight after the move
ColorScore(s, u, c) == s.total_weight + s.cost_coloring[u][c] - s.weights[u]

\* the number of vertices without colour after colouring u with c
ColorUncolored(g, s, u, c) ==
    Len(s.uncolored_vertices) - 1
      + Cardinality({v \in s.colors_vertices[c] : are_adjacent(g, u, v)})

\* the candidates of a repair step: a vertex without colour, a colour in use
ColorMoves(s) ==
    {m \in Range(s.uncolored_vertices) \X (DOMAIN s.colors_vertex_number) :
        s.colors_vertex_number[m[2]] > 0}

ColorIsTabu(s, u, c) ==
    pw_TabuCol_contains(s.tabu, [vertex |-> u, color |-> c])

\* C30: a repair step of colouring PWLS decides a pair (u, c), u without
\* colour and c in use, of score total_weight + cost_coloring[u][c] -
\* weights[u]; the pair decided has the least score of the candidates that
\* are not tabu, and, when some candidate is not tabu, it is tabu itself
\* only if it brings the infeasibility (the total weight, or the number of
\* vertices without colour) below that of the current state, which the
\* current phase has seen.
C30_BestNonTabuColoring ==
    [][(pw # Idle /\ drv.pc = "scan" /\ drv'.pc = "outer" /\ drv'.node.vertex # None) =>
          LET u == drv'.node.vertex
              c == drv'.node.color
          IN  /\ <<u, c>> \in ColorMoves(pw)
              /\ drv'.node.total_weight = ColorScore(pw, u, c)
              /\ \A m \in ColorMoves(pw) :
                    ~ColorIsTabu(pw, m[1], m[2])
                       => ColorScore(pw, u, c) <= ColorScore(pw, m[1], m[2])
              /\ (/\ ColorIsTabu(pw, u, c)
                  /\ \E m \in ColorMoves(pw) : ~ColorIsTabu(pw, m[1], m[2])) =>
                    \/ ColorScore(pw, u, c) < pw.total_weight
                    \/ ColorUncolored(inst, pw, u, c) < Len(pw.uncolored_vertices)]_vars

\* the same without the condition on a tabu pair
C30_BestOfAccepted ==
    [][(pw # Idle /\ drv.pc = "scan" /\ drv'.pc = "outer" /\ drv'.node.vertex # None) =>
          LET u == drv'.node.vertex
              c == drv'.node.color
          IN  /\ <<u, c>> \in ColorMoves(pw)
              /\ drv'.node.total_weight = ColorScore(pw, u, c)
              /\ \A m \in ColorMoves(pw) :
                    ~ColorIsTabu(pw, m[1], m[2])
                       => ColorScore(pw, u, c) <= ColorScore(pw, m[1], m[2])]_vars

\* the number of non-empty classes of a Vec<Vec<VertexId>>
NonEmptyClasses(sol) == Cardinality({c \in 1..Len(sol) : sol[c] # <<>>})

\* the step of commit that finds total_weight = 0: the colouring is recorded
\* class by class, the count of the best so far loses one, and delete_color
\* starts
SnapshotThenDelete ==
    [][(pw # Idle /\ drv.pc = "check" /\ drv'.pc # "check") =>
          IF pw.total_weight = 0
          THEN /\ \A c \in 1..Len(pw'.current_sol) :
                     Range(pw'.current_sol[c]) = {v \in Vertices(inst) : pw.colors[v] = c - 1}
               /\ pw'.nb_colors_best_so_far = pw.nb_colors_best_so_far - 1
               /\ drv'.pc = "uncolor" /\ drv'.after = "delete"
          ELSE /\ pw'.current_sol = pw.current_sol
               /\ pw'.nb_colors_best_so_far = pw.nb_colors_best_so_far]_vars

\* the count of the best so far is the number of non-empty classes of the
\* recorded colouring
BestCountIsSnapshotSize ==
    [](pw # Idle => pw.nb_colors_best_so_far = NonEmptyClasses(pw.current_sol))

\* C31: in colouring PWLS, each time total_weight reaches 0 the colouring,
\* which is total, is recorded as current_sol, nb_colors_best_so_far loses
\* one and a delete phase follows; and nb_colors_best_so_far is in every
\* state the number of non-empty classes of the recorded colouring.
C31_SnapshotCount ==
    /\ SnapshotThenDelete
    /\ BestCountIsSnapshotSize

\* a call of neighbors that commits a swap (the node is not the dummy one)
SwapCommitted ==
    /\ cq # Idle
    /\ drv # Idle
    /\ drv.pc = "outer"
    /\ cq'.calls # cq.calls
    /\ drv.node.vertex_in # drv.node.vertex_out

\* the swap returned by neighbors takes out a vertex of the candidate with
\* the largest weight_adj_clique and takes in a vertex outside it with the
\* smallest weight_adj_clique
SwapSelectsExtremes ==
    [][(cq # Idle /\ drv # Idle /\ drv.pc = "outer" /\ drv'.pc = "outer"
        /\ cq'.calls # cq.calls) =>
          LET u == drv'.node.vertex_out
              v == drv'.node.vertex_in
          IN  /\ u \in cq'.inside_clique
              /\ v \in Vertices(inst) \ cq'.inside_clique
              /\ \A x \in cq'.inside_clique :
                    cq'.weight_adj_clique[x] <= cq'.weight_adj_clique[u]
              /\ \A y \in Vertices(inst) \ cq'.inside_clique :
                    cq'.weight_adj_clique[v] <= cq'.weight_adj_clique[y]]_vars

\* the commit of the swap (u out, v in) adds 1 to the weight of the pair
\* {u, v} exactly when u and v are not adjacent and changes no other weight
SwapBumpsSwappedPair ==
    [][SwapCommitted =>
          LET u == drv.node.vertex_out
              v == drv.node.vertex_in
          IN  \A a \in Vertices(inst) : \A b \in 0..(a - 1) :
                 cq'.weights[a][b] =
                    IF {a, b} = {u, v} /\ ~are_adjacent(inst, u, v)
                    THEN cq.weights[a][b] + 1
                    ELSE cq.weights[a][b]]_vars

\* what remove_vertex does: the commit of the swap (u out, v in) adds 1 to
\* the weight of every pair {u, w} with w in the candidate, w not adjacent
\* to u, and changes no other weight
SwapBumpsResolvedPairs ==
    [][SwapCommitted =>
          LET u == drv.node.vertex_out
          IN  \A a \in Vertices(inst) : \A b \in 0..(a - 1) :
                 cq'.weights[a][b] =
                    IF u \in {a, b}
                       /\ \E w \in cq.inside_clique \ {u} :
                             {a, b} = {u, w} /\ ~are_adjacent(inst, u, w)
                    THEN cq.weights[a][b] + 1
                    ELSE cq.weights[a][b]]_vars

\* C32: a swap of the clique search takes out a vertex u of the candidate
\* of largest weight_adj_clique and takes in a vertex v outside it of
\* smallest weight_adj_clique; the weight of the pair {u, v} grows by 1
\* exactly when u and v are not adjacent, and no other weight changes
\* during the swap.
C32_SwapFrame ==
    /\ SwapSelectsExtremes
    /\ SwapBumpsSwappedPair

\* a call of neighbors of the clique search with vertex weights that commits
\* the insertion of a vertex
QpInserted ==
    /\ cq # Idle
    /\ drv # Idle
    /\ drv.pc = "outer"
    /\ cq'.nb_iter # cq.nb_iter

\* add_vertex(u) leaves in the candidate u and the members adjacent to u,
\* which are pairwise adjacent whenever the members were
InsertionKeepsClique ==
    [][QpInserted =>
          LET u == drv.node.vertex_in
          IN  /\ cq'.inside_clique =
                    {v \in cq.inside_clique : are_adjacent(inst, u, v)} \cup {u}
              /\ IsClique(inst, cq'.inside_clique)
              /\ cq'.configuration = Range(neighbors(inst, u))]_vars

\* the score of the insertion of u
InsertScore(s, u) == s.total_weight + s.weights[u] - s.weight_cost_inserting[u]

\* the vertex returned for insertion is outside the candidate and in the
\* configuration, with the score total_weight + weights[u] -
\* weight_cost_inserting[u]
InsertedFromConfiguration ==
    [][(cq # Idle /\ drv # Idle /\ drv.pc = "outer" /\ drv'.node # drv.node) =>
          LET u == drv'.node.vertex_in
          IN  /\ u \in cq'.configuration \ cq'.inside_clique
              /\ drv'.node.total_weight = InsertScore(cq', u)]_vars

\* no vertex of the configuration outside the candidate has a larger score
\* than the vertex returned
InsertedHasBestScore ==
    [][(cq # Idle /\ drv # Idle /\ drv.pc = "outer" /\ drv'.node # drv.node) =>
          \A y \in cq'.configuration \ cq'.inside_clique :
              InsertScore(cq', y) <= drv'.node.total_weight]_vars

\* the same among the vertices that pass the degree test of neighbors
InsertedHasBestScoreOfDegree ==
    [][(cq # Idle /\ drv # Idle /\ drv.pc = "outer" /\ drv'.node # drv.node) =>
          \A y \in cq'.configuration \ cq'.inside_clique :
              degree(inst, y) >= Len(cq'.current_sol)
                 => InsertScore(cq', y) <= drv'.node.total_weight]_vars

\* ---------------------------------------------------------------------
\* The clique search with vertex weights on a graph large enough for its
\* tabu list to answer true: CliqueTenure::new(n/5, 0.0, n) draws rand_l
\* from 0..=n/5, and a vertex inserted at iteration i can be a candidate
\* again at iteration i + 4 at the earliest. The graph has 20 vertices: a
\* cycle 0-1-2-3, a triangle 4-5-6 hanging on vertex 2 by the edge 2-4, and
\* vertices without edges.
\* ---------------------------------------------------------------------

TabuCliqueGraph ==
    MkGraph(20, {{0, 1}, {1, 2}, {2, 3}, {0, 3}, {2, 4}, {4, 5}, {4, 6}, {5, 6}})

TabuCliqueSeeds == {<<0>>, <<1>>, <<2>>, <<3>>, <<4>>, <<0, 1>>, <<2, 4>>}

InitCliqueTabu ==
    \E sol \in TabuCliqueSeeds :
        /\ inst = TabuCliqueGraph
        /\ cw = Idle
        /\ pw = Idle
        /\ cq = qp_initialize(TabuCliqueGraph, sol)
        /\ io = [pc |-> "draws", draws |-> [v \in Vertices(TabuCliqueGraph) |-> 0]]
        /\ drv = DriverInit(clique_vec_to_vecvec(sol, TabuCliqueGraph.n), TRUE,
                            [vertex_in |-> None, total_weight |-> Len(sol)])

\* one round of Greedy as in QpNeighbors; io.draws[u] is the value of rand_l
\* in the call contains(u) of this round (0 for the vertices whose answer
\* does not depend on it: those never inserted, those in the candidate and
\* those outside the configuration)
QpNeighborsDrawn ==
    /\ drv.pc = "outer"
    /\ ~drv.stop
    /\ cq.nb_iter < MaxIter
    /\ LET s1 == qp_commit(inst, cq, drv.node)
           drawn == {u \in s1.configuration \ s1.inside_clique :
                        s1.tabu.decisions[u] # None}
       IN  /\ cq' = s1
           /\ \E d \in [drawn -> 0..(inst.n \div 5)] :
                 LET draws == [v \in Vertices(inst) |-> IF v \in drawn THEN d[v] ELSE 0]
                     res == qp_scan(inst, s1, draws)
                 IN  /\ io' = [io EXCEPT !.draws = draws]
                     /\ IF res = <<>>
                        THEN drv' = [drv EXCEPT !.stop = TRUE]
                        ELSE \E i \in 1..Len(res) :
                                drv' = [drv EXCEPT !.node = res[i], !.has_best = TRUE]
    /\ UNCHANGED <<inst, cw, pw>>

NextCliqueTabu ==
    \/ Stop
    \/ QpNeighborsDrawn
    \/ QpReturn

SpecCliqueTabu == InitCliqueTabu /\ [][NextCliqueTabu]_vars

\* a round of neighbors that returns a vertex to insert
QpSelected ==
    /\ cq # Idle
    /\ drv # Idle
    /\ io # Idle
    /\ drv.pc = "outer"
    /\ drv'.node # drv.node

\* the vertex returned for insertion is one for which the tabu list answers
\* false in this round
InsertedNotTabu ==
    [][QpSelected =>
          ~qp_tabu_contains(cq'.tabu, drv'.node.vertex_in,
                            io'.draws[drv'.node.vertex_in])]_vars

\* no vertex of the configuration outside the candidate for which the tabu
\* list answers false has a larger score than the vertex returned
InsertedBestOfNotTabu ==
    [][QpSelected =>
          \A y \in cq'.configuration \ cq'.inside_clique :
              ~qp_tabu_contains(cq'.tabu, y, io'.draws[y])
                 => InsertScore(cq', y) <= drv'.node.total_weight]_vars

\* the same among the vertices that pass the degree test of neighbors
InsertedBestOfAccepted ==
    [][QpSelected =>
          \A y \in cq'.configuration \ cq'.inside_clique :
              (/\ ~qp_tabu_contains(cq'.tabu, y, io'.draws[y])
               /\ degree(inst, y) >= Len(cq'.current_sol))
                 => InsertScore(cq', y) <= drv'.node.total_weight]_vars

\* C33: in the clique search with vertex weights, the insertion of u takes
\* out of the candidate every member not adjacent to u, so that after every
\* insertion the candidate is a clique that contains u; and the vertex
\* inserted is a vertex outside the candidate, not tabu, of the
\* configuration (the neighbours of the vertex inserted last), with the
\* largest total_weight + weights[u] - weight_cost_inserting[u] of these.
C33_InsertionAndChoice ==
    /\ InsertionKeepsClique
    /\ InsertedFromConfiguration
    /\ InsertedNotTabu
    /\ InsertedBestOfNotTabu

\* the sum of the merge cost of the pair (i1, i2) in the integers
MergeCostExact(s, i1, i2) ==
    LET color1 == s.current_sol[i1 + 1]
    IN  SumSeq([j \in 1..Len(color1) |-> s.weights_neigh_colors[color1[j]][i2]])

\* the merge cost that coloring_conflict_weighting.rs computes for two
\* non-empty classes is the sum of the integers, u16::MAX at most
MergeCostClamped ==
    [](cw # Idle =>
          \A i1 \in 0..(Len(cw.current_sol) - 1) : \A i2 \in 0..(i1 - 1) :
              (cw.current_sol[i1 + 1] # <<>> /\ cw.current_sol[i2 + 1] # <<>>) =>
                  /\ merge_cost_u16(cw, i1, i2) =
                        Min(MergeCostExact(cw, i1, i2), WeightMAX)
                  /\ MergeCostExact(cw, i1, i2) <= WeightMAX)

\* no call of change_vertex_color adds 1 to a weight that is u16::MAX: no
\* build panics on the addition and no weight wraps around
NoWeightOverflow ==
    /\ [](cw # Idle => drv.pc # "panic")
    /\ [][(cw # Idle /\ cw' # cw) =>
             \E v \in Vertices(inst) :
                /\ cw'.colors[v] # cw.colors[v]
                /\ ~cvc_overflows(inst, cw, v, cw'.colors[v])]_vars

ScanWithConflicts ==
    /\ cw # Idle
    /\ drv # Idle
    /\ drv.greedy
    /\ drv.pc = "repair"
    /\ drv'.pc = "outer"
    /\ cw.total_weight > 0

\* the node that neighbors returns for a state with conflicts is a move: of
\* a vertex in conflict, to another colour
ScanReturnsMove ==
    [][ScanWithConflicts =>
          /\ drv'.node # PlaceholderNode
          /\ drv'.node.previous_color # drv'.node.next_color
          /\ cw.vertex_nb_conflicts[drv'.node.vertex] > 0]_vars

\* `assert!(self.is_goal())` of neighbors never fails
GoalAssertionHolds ==
    [][(cw # Idle /\ drv # Idle /\ drv.greedy /\ drv.pc = "outer")
          => drv'.pc # "panic"]_vars

\* C35: in colouring CWLS the selection of a move in a state with
\* total_weight > 0 returns a move (previous colour # next colour, of a
\* vertex with conflicts) and never its placeholder node, also when every
\* candidate is tabu and the aspiration test fails; so the assertion that
\* the state is a goal, made before merging, never fails.
C35_NeverPlaceholder ==
    /\ ScanReturnsMove
    /\ GoalAssertionHolds

\* the number of non-empty classes of the working colouring
NbClassesInUse(s) ==
    Cardinality({c \in 0..(s.nb_colors - 1) : s.colors_vertex_number[c] > 0})

\* the selection of merge_colors runs with two non-empty classes at least
MergeHasTwoClasses ==
    [](cw # Idle /\ drv # Idle /\ drv.pc = "select" => NbClassesInUse(cw) >= 2)

\* the selection of merge_colors finds a pair: unwrap() does not panic
MergeFindsPair ==
    [][(cw # Idle /\ drv # Idle /\ drv.pc = "select") => drv'.pc # "panic"]_vars

\* C36: the merge phase of CWLS always finds a pair to merge: each time the
\* selection of merge_colors runs (the repeated merges while the state stays
\* a goal, and the case of merge costs all at u16::MAX, included) there are
\* two non-empty classes at least and a best pair is selected, so the
\* unwrap() of the best pair never panics.
C36_MergeFindsPair ==
    /\ MergeHasTwoClasses
    /\ MergeFindsPair

\* no two adjacent vertices have the same colour
ProperPartial(g, s) ==
    \A u, v \in Vertices(g) :
        (are_adjacent(g, u, v) /\ s.colors[u] # None) => s.colors[u] # s.colors[v]

\* sol is a colouring of all the vertices, once each, with classes of
\* pairwise non-adjacent vertices
FeasibleColoring(g, sol) ==
    /\ \A v \in Vertices(g) :
          Cardinality({c \in 1..Len(sol) : v \in Range(sol[c])}) = 1
    /\ \A c \in 1..Len(sol) :
          /\ Cardinality(Range(sol[c])) = Len(sol[c])
          /\ \A u, v \in Range(sol[c]) : ~are_adjacent(g, u, v)

\* the run is inside color_vertex, between the placement of the vertex and
\* the end of the loop that uncolors its neighbours of the same colour
InsideColorVertex ==
    drv.pc = "uncolor" /\ drv.after = "check" /\ drv.todo # <<>>

\* C37: in colouring PWLS the partial colouring is proper after every
\* primitive (color_vertex with its uncolor_vertex calls, uncolor_vertex of
\* delete_color, delete_color): no two adjacent vertices have the same
\* colour; and every snapshot current_sol, taken at total_weight = 0, is a
\* feasible colouring of all the vertices.
C37_ProperPartial ==
    pw # Idle =>
        /\ ~InsideColorVertex => ProperPartial(inst, pw)
        /\ FeasibleColoring(inst, pw.current_sol)

\* a snapshot other than the seed has been taken, and the last color_vertex
\* has left a neighbour of its vertex without colour
C37_Witness ==
    /\ pw # Idle
    /\ drv.pc = "check"
    /\ pw.current_sol # drv.seed
    /\ drv.node.vertex # None
    /\ pw.colors[drv.node.vertex] = drv.node.color
    /\ \E v \in Range(neighbors(inst, drv.node.vertex)) :
          /\ pw.colors[v] = None
          /\ pw.weights[v] > 1

\* the segment with its two endpoints exchanged
Flip(s) == <<s[2], s[1]>>

\* C38: are_intersecting is symmetric: for all segments a and b the call
\* are_intersecting(a, b) answers as are_intersecting(b, a), and the answer
\* does not depend on the order of the two endpoints inside a segment.
C38_Symmetric ==
    Called =>
        /\ io.result = are_intersecting(io.b, io.a)
        /\ io.result = are_intersecting(Flip(io.a), io.b)
        /\ io.result = are_intersecting(io.a, Flip(io.b))
        /\ io.result = are_intersecting(Flip(io.a), Flip(io.b))
        /\ io.result = are_intersecting(Flip(io.b), Flip(io.a))

\* a pair answered true in which the first segment lies inside the second,
\* on the same line and without a common endpoint: only the orientations
\* taken from the second segment find it
C38_Witness ==
    /\ Called
    /\ io.result
    /\ SharedPoints(io.a, io.b) = {}
    /\ orientation(io.a[1], io.a[2], io.b[1]) = "Collinear"
    /\ orientation(io.a[1], io.a[2], io.b[2]) = "Collinear"
    /\ ~on_segment(io.a[1], io.b[1], io.a[2])
    /\ ~on_segment(io.a[1], io.b[2], io.a[2])

\* the total weight that the selection predicts for the swap (u out, v in)
\* in the state s: total_weight + weight_adj_clique[v] -
\* weight_adj_clique[u], less the weight of the pair {u, v} when u and v
\* are not adjacent
PredictedSwapWeight(g, s, u, v) ==
    s.total_weight + s.weight_adj_clique[v] - s.weight_adj_clique[u]
       - (IF are_adjacent(g, u, v) THEN 0 ELSE cq_get_weight(s, u, v))

\* the node returned by neighbors carries the predicted total weight of its
\* swap
NodeCarriesPrediction ==
    [][(cq # Idle /\ drv # Idle /\ drv.pc = "outer" /\ drv'.pc = "outer"
        /\ cq'.calls # cq.calls) =>
          drv'.node.total_weight =
             PredictedSwapWeight(inst, cq', drv'.node.vertex_out, drv'.node.vertex_in)]_vars

\* C39: in the clique search with edge weights, the total weight predicted
\* for a swap when it is selected (total_weight + weight_adj_clique[v] -
\* weight_adj_clique[u], less the correction for the pair u, v) is the
\* total_weight of the state once the swap is committed, for every swap.
C39_PredictedIsActual ==
    cq # Idle =>
        \A u \in cq.inside_clique : \A v \in Vertices(inst) \ cq.inside_clique :
            cq_commit(inst, cq, [vertex_in |-> v, vertex_out |-> u,
                                 total_weight |-> 0]).total_weight
               = PredictedSwapWeight(inst, cq, u, v)

\* a state, after three moves at least, with a swap of two non-adjacent
\* vertices whose pair has a weight that has grown: the correction of the
\* prediction is more than 1 and the candidate has missing edges
C39_Witness ==
    /\ cq # Idle
    /\ cq.calls >= 3
    /\ cq.total_weight > 0
    /\ \E u \in cq.inside_clique : \E v \in Vertices(inst) \ cq.inside_clique :
          /\ ~are_adjacent(inst, u, v)
          /\ cq_get_weight(cq, u, v) > 1
          /\ cq.weight_adj_clique[u] > 0

\* ---------------------------------------------------------------------
\* clique_swap.rs: clique_swaps, the tabu search that inserts one vertex per
\* iteration and removes the members of the clique that do not see it.
\* The state of the function is kept in cq: current_clique, best,
\* inside_clique, nb_clique_see, nb_iter, nb_max_iter and tabu. The tabu
\* list is CliqueSwapTenure::new(n/5, 0.5, n) of this file, whose insert
\* also advances nb_iter and whose contains is called with the node 0.
\* ---------------------------------------------------------------------

cs_initialize(g, sol, nb_max_iter) ==
    [current_clique |-> sol,
     best |-> sol,
     inside_clique |-> Range(sol),
     nb_clique_see |->
        [v \in Vertices(g) |->
            Cardinality({i \in 1..Len(sol) : are_adjacent(g, sol[i], v)})],
     nb_iter |-> 0,
     nb_max_iter |-> nb_max_iter,
     tabu |-> CliqueSwapTenure_new(g.n)]

\* to_remove that is always empty
cs_to_remove_none(g, s, u) == SelectSeq(s.current_clique, LAMBDA v : FALSE)

\* to_remove: the vertices of current_clique that are not adjacent to u
cs_to_remove(g, s, u) ==
    SelectSeq(s.current_clique, LAMBDA v : ~are_adjacent(g, u, v))

\* the body of the loop after `nb_iter += 1` and the test on nb_max_iter;
\* draws[u] is the value of rand_l in the call contains(0, u). The answer
\* is [state, found]: found is FALSE when no vertex passes the filter.
cs_step(g, s, draws) ==
    LET threshold(u) == draws[u] + ((5 * 0) \div 10)
        contains(u) ==
            /\ s.tabu.decisions[u] # None
            /\ (threshold(u) > s.tabu.nb_iter
                  \/ s.tabu.decisions[u] >= s.tabu.nb_iter - threshold(u))
        passing == {u \in Vertices(g) \ s.inside_clique :
                       s.nb_clique_see[u] = Len(s.current_clique) \/ ~contains(u)}
    IN  IF passing = {} THEN [state |-> s, found |-> FALSE]
        ELSE
        LET u == LastMax(passing,
                         [x \in Vertices(g) |-> s.nb_clique_see[x] * g.n + degree(g, x)])
            to_remove == cs_to_remove(g, s, u)
            seen_more == [v \in Vertices(g) |->
                             s.nb_clique_see[v]
                                + (IF are_adjacent(g, u, v) THEN 1 ELSE 0)]
            seen == [w \in Vertices(g) |->
                        seen_more[w]
                           - Cardinality({i \in 1..Len(to_remove) :
                                             are_adjacent(g, to_remove[i], w)})]
            inside == (s.inside_clique \cup {u}) \ Range(to_remove)
            clique == SelectSeq(Append(s.current_clique, u), LAMBDA v : v \in inside)
        IN  [state |->
                [s EXCEPT !.inside_clique = inside,
                          !.current_clique = clique,
                          !.tabu = [@ EXCEPT !.decisions[u] = s.tabu.nb_iter,
                                             !.nb_iter = @ + 1],
                          !.nb_clique_see = seen,
                          !.best = IF to_remove = <<>> /\ Len(clique) > Len(s.best)
                                   THEN clique ELSE @],
             found |-> TRUE]

InitCliqueSwaps ==
    \E g \in CliqueGraphs \cup {TabuCliqueGraph} :
    \E sol \in (IF g = TabuCliqueGraph THEN TabuCliqueSeeds ELSE CliqueSeeds(g)) :
    \E nb_max_iter \in 1..(MaxIter + 1) :
        /\ inst = g
        /\ cw = Idle
        /\ pw = Idle
        /\ cq = cs_initialize(g, sol, nb_max_iter)
        /\ io = Idle
        /\ drv = [pc |-> "loop", returned |-> <<>>]

\* one iteration of the loop that reaches its end
CsIter ==
    /\ drv.pc = "loop"
    /\ cq.nb_iter + 1 < cq.nb_max_iter
    /\ LET s1 == [cq EXCEPT !.nb_iter = @ + 1]
           drawn == {u \in Vertices(inst) \ s1.inside_clique :
                        /\ s1.nb_clique_see[u] # Len(s1.current_clique)
                        /\ s1.tabu.decisions[u] # None}
       IN  \E d \in [drawn -> 0..(inst.n \div 5)] :
              LET res == cs_step(inst, s1,
                                 [v \in Vertices(inst) |->
                                     IF v \in drawn THEN d[v] ELSE 0])
              IN  /\ res.found
                  /\ cq' = res.state
    /\ UNCHANGED <<inst, cw, pw, io, drv>>

\* the iteration that leaves the loop, on nb_max_iter or for want of a
\* vertex to insert, and the return of best
CsBreak ==
    /\ drv.pc = "loop"
    /\ LET s1 == [cq EXCEPT !.nb_iter = @ + 1]
           drawn == {u \in Vertices(inst) \ s1.inside_clique :
                        /\ s1.nb_clique_see[u] # Len(s1.current_clique)
                        /\ s1.tabu.decisions[u] # None}
       IN  /\ \/ s1.nb_iter >= s1.nb_max_iter
              \/ \E d \in [drawn -> 0..(inst.n \div 5)] :
                    ~cs_step(inst, s1,
                             [v \in Vertices(inst) |->
                                 IF v \in drawn THEN d[v] ELSE 0]).found
           /\ cq' = s1
    /\ drv' = [drv EXCEPT !.pc = "done", !.returned = cq.best]
    /\ UNCHANGED <<inst, cw, pw, io>>

NextCliqueSwaps ==
    \/ CsIter
    \/ CsBreak

SpecCliqueSwaps == InitCliqueSwaps /\ [][NextCliqueSwaps]_vars

\* best is a clique, without repetition
BestIsClique ==
    [](cq # Idle =>
          /\ IsClique(inst, Range(cq.best))
          /\ Cardinality(Range(cq.best)) = Len(cq.best))

\* best never gets smaller, and it changes only in an iteration whose
\* insertion removed no member and left a clique larger than best, which
\* becomes best
BestOnlyGrows ==
    [][cq # Idle =>
          /\ Len(cq'.best) >= Len(cq.best)
          /\ cq'.best # cq.best =>
                /\ cq.inside_clique \subseteq cq'.inside_clique
                /\ Cardinality(cq'.inside_clique) = Cardinality(cq.inside_clique) + 1
                /\ Len(cq'.best) > Len(cq.best)
                /\ cq'.best = cq'.current_clique]_vars

\* C40: in the tabu search by swaps of clique_swaps the recorded best is
\* always a clique and its size never decreases: best is replaced only
\* after an insertion that removed no member of the clique and gave a
\* clique strictly larger than best.
C40_BestCliqueSwaps ==
    /\ BestIsClique
    /\ BestOnlyGrows

\* the search has returned a best clique that holds a vertex it inserted,
\* while later insertions have taken members of it out of the current
\* clique and a vertex inserted earlier is outside again
C40_Witness ==
    /\ cq # Idle
    /\ drv.pc = "done"
    /\ Len(drv.returned) > Cardinality(Range(cq.current_clique) \cap Range(drv.returned))
    /\ \E v \in Range(cq.best) : cq.tabu.decisions[v] # None
    /\ \E v \in Vertices(inst) \ cq.inside_clique : cq.tabu.decisions[v] # None

====
